---- MODULE Spec2Model ----
(***************************************************************************)
(* ICPI backend (AlexandriaDAO/basket): the mint state machine of          *)
(* complete_mint, the burn pipeline of burn_icpi and the per-user          *)
(* reentrancy guards, as one state machine.                                *)
(*                                                                         *)
(* The canister is single-threaded: a message handler runs atomically up   *)
(* to its next await.  Every action below is one such segment: an entry    *)
(* point up to its first external call, or the continuation that runs when *)
(* the reply of an external call arrives, up to the next call or the       *)
(* return.  The outcome of an external call is an input of the             *)
(* continuation.  Balances and prices live on other canisters; what a      *)
(* query returns is an input drawn from a small set.                       *)
(*                                                                         *)
(* PendingMints stay in the table for the modelled window (the periodic    *)
(* cleaner only removes entries older than 24 hours).  A return of an      *)
(* entry point drops its guard, as the guard's Drop does at scope exit; a  *)
(* trap inside a continuation is not modelled.                             *)
(*                                                                         *)
(* calls, trail, issued and ev are history variables: they record what a   *)
(* run did and what a call returned.  No action reads calls, trail or      *)
(* issued; ev only orders a return before the next message: after a return *)
(* the next step is the response leaving (Respond).  gop and burnSeen are  *)
(* history variables too.                                                  *)
(*                                                                         *)
(* The rebalance cycles, the global operation state of the reentrancy      *)
(* module and the pure functions of the burn and mint arithmetic have      *)
(* specifications of their own (SpecSys, SpecCoord, SpecMath); SpecBurn is *)
(* the burn pipeline with what each reply said on record, and SpecRing is  *)
(* the rebalance cycle with its ring of recent records, which the cycles   *)
(* only write and which SpecSys therefore leaves out.  SpecSnap is the     *)
(* mint pipeline with the replies to each snapshot attempt on record,      *)
(* SpecBracket a mint or burn that brackets itself with the global         *)
(* operation calls, and SpecCycle the rebalance cycle down to the steps of *)
(* execute_swap.  SpecMath also applies the trade selection, the slippage  *)
(* check and the locked-liquidity totals.                                  *)
(***************************************************************************)
EXTENDS Integers, Sequences, FiniteSets, TLC

\* ------------------------------------------------------------------ bounds
\* initiate_mint calls accepted, over all principals
MaxMints == 2
\* the same, where burns and the pause switch run beside the mints
MaxOpsMints == 1

\* ------------------------------------------------------------ input sets
Anonymous == "anon"
Users == {"u1", "u2"}
Principals == Users \cup {Anonymous}

\* deposit amounts offered to initiate_mint, in ckUSDT atoms; the minimum is a
\* stand-in for the constant, the amounts lie on either side of it
MIN_MINT_AMOUNT == 1
Deposits == {0, 2}
\* what the supply query and the TVL computation can answer
QueryFailed(e) == [ok |-> FALSE, val |-> 0, err |-> e]
QueryErr == QueryFailed("QueryError")
Answer(v) == [ok |-> TRUE, val |-> v, err |-> "none"]
SupplyAnswers == {QueryErr} \cup {Answer(v) : v \in {0, 2}}
TvlAnswers == {QueryErr} \cup {Answer(v) : v \in {0, 2, 5}}

\* burn amounts offered to burn_icpi, in ICPI atoms
MIN_BURN_AMOUNT == 10000
BurnAmounts == {9999, 10000}
\* the mint/burn fee in ckUSDT atoms, and what icrc2_allowance can answer
MINT_FEE_AMOUNT == 100000
AllowanceAnswers == {QueryErr, Answer(99999), Answer(100000)}
\* what the supply query and icrc1_balance_of can answer to a burn
BurnSupplyAnswers == {QueryErr, Answer(0), Answer(99999), Answer(100000)}
BalanceAnswers == {QueryErr, Answer(9999), Answer(10000)}
\* what icrc2_transfer_from of the ICPI can answer
TransferAnswers == {"Ok", "InsufficientAllowance", "OtherTransferError", "Rejected"}

MintIds == Users \X (1 .. MaxMints)
NoId == <<"none", 0>>

\* ------------------------------------------------------------- MintStatus
St(tag) == [tag |-> tag, val |-> 0]
Complete(x) == [tag |-> "Complete", val |-> x]
NoSnapshot == [set |-> FALSE, supply |-> 0, tvl |-> 0]
NoMint == [present |-> FALSE, user |-> Anonymous, amount |-> 0,
           status |-> St("Pending"), snapshot |-> NoSnapshot]

\* ------------------------------------------------------------ pure math
RECURSIVE Pow10(_)
Pow10(n) == IF n = 0 THEN 1 ELSE 10 * Pow10(n - 1)

Ok(v) == [ok |-> TRUE, val |-> v, err |-> "none"]
Err(e) == [ok |-> FALSE, val |-> 0, err |-> e]

\* (variant) a quotient rounded up
multiply_and_divide_ceil(a, b, c) ==
    IF c = 0 THEN Err("DivisionByZero") ELSE Ok((a * b + c - 1) \div c)

multiply_and_divide(a, b, c) ==
    IF c = 0 THEN Err("DivisionByZero") ELSE Ok((a * b) \div c)

convert_decimals(amount, from, to) ==
    IF from = to THEN Ok(amount)
    ELSE IF from < to THEN Ok(amount * Pow10(to - from))
    ELSE IF amount < Pow10(from - to) THEN Err("PrecisionLoss")
    ELSE Ok(amount \div Pow10(from - to))

\* (variant) a proportional mint that divides by the TVL in e6, not in e8
calculate_mint_amount_tvlE6(deposit_amount, current_supply, current_tvl) ==
    IF deposit_amount = 0 THEN Err("InvalidAmount")
    ELSE IF current_supply = 0 \/ current_tvl = 0
         THEN convert_decimals(deposit_amount, 6, 8)
    ELSE LET icpi_amount == multiply_and_divide(deposit_amount * 100, current_supply,
                                                current_tvl)
         IN  IF icpi_amount.val = 0 THEN Err("ProportionalCalculationError")
             ELSE icpi_amount

calculate_mint_amount(deposit_amount, current_supply, current_tvl) ==
    IF deposit_amount = 0 THEN Err("InvalidAmount")
    ELSE IF current_supply = 0 \/ current_tvl = 0
         THEN convert_decimals(deposit_amount, 6, 8)
    ELSE LET deposit_e8 == convert_decimals(deposit_amount, 6, 8)
             tvl_e8 == convert_decimals(current_tvl, 6, 8)
             icpi_amount == multiply_and_divide(deposit_e8.val, current_supply,
                                                tvl_e8.val)
         IN  IF ~icpi_amount.ok THEN icpi_amount
             ELSE IF icpi_amount.val = 0
                  THEN Err("ProportionalCalculationError")
             ELSE icpi_amount

\* ------------------------------------------------------------ snapshot
\* (variant) only a supply without TVL is refused
validate_and_return_snapshot_oneSided(supply, tvl) ==
    IF supply > 0 /\ tvl = 0
    THEN [ok |-> FALSE, supply |-> 0, tvl |-> 0, err |-> "DataInconsistency"]
    ELSE [ok |-> TRUE, supply |-> supply, tvl |-> tvl, err |-> "none"]

validate_and_return_snapshot(supply, tvl) ==
    IF supply > 0 /\ tvl = 0
    THEN [ok |-> FALSE, supply |-> 0, tvl |-> 0, err |-> "DataInconsistency"]
    ELSE IF supply = 0 /\ tvl > 0
    THEN [ok |-> FALSE, supply |-> 0, tvl |-> 0, err |-> "DataInconsistency"]
    ELSE [ok |-> TRUE, supply |-> supply, tvl |-> tvl, err |-> "none"]

MAX_RETRIES == 2

\* ------------------------------------------------------------------ width
\* the largest u128 of the model: candid Nat is unbounded and the code
\* computes in u128; the model computes in 24 bits, which holds every amount
\* of the pipelines above and lets the products of the checks overflow
U128_MAX == 16777215

\* ------------------------------------------------------------------ clock
\* ic_cdk::api::time() counts nanoseconds; the model's clock counts ticks of
\* 1/TicksPerSecond of a second, and every duration is given in ticks
TicksPerSecond == 2
\* the clock at init
StartTime == 1
GRACE_PERIOD_NANOS == 60 * TicksPerSecond
\* the instants at which messages arrive: init, one tick later, and one tick
\* before, at and one tick after a grace period counted from init
Instants == {StartTime, StartTime + 1, StartTime + GRACE_PERIOD_NANOS - 1,
             StartTime + GRACE_PERIOD_NANOS, StartTime + GRACE_PERIOD_NANOS + 1}

\* ------------------------------------------------------------------ state
VARIABLES
    pending_mints,   \* PENDING_MINTS: mint id -> PendingMint (NoMint: absent)
    ACTIVE_MINTS,    \* principals holding a MintGuard
    mintCall,        \* principal -> the frame of its suspended complete_mint
    calls,           \* history: mint id -> external calls of its latest run
    trail,           \* history: mint id -> statuses given to it in its latest run
    issued,          \* history: mint id -> successful ledger issuances
    ACTIVE_BURNS,    \* principals holding a BurnGuard
    burnCall,        \* principal -> the frame of its suspended burn_icpi
    EMERGENCY_PAUSE, \* the pause flag
    ev,              \* history: the step just taken and what it returned
    CURRENT_GLOBAL_OPERATION, \* the global operation state
    LAST_OPERATION_END_TIME,  \* when the last global operation ended, in ns
    now,             \* ic_cdk::api::time(), in ns
    gop,             \* history: the latest coordinator call, and its result
    REBALANCING_IN_PROGRESS,  \* the flag the rebalance entry points take
    rebalCall,       \* the frame of the suspended rebalance cycle
    mathIn,          \* the arguments a pure function is applied to
    mathOut,         \* what it returned
    burnSeen,        \* history: principal -> what its latest burn_icpi was told
    snapSeen,        \* history: mint id -> replies to the attempts of its snapshot
    history,         \* REBALANCE_STATE.history: the ring of recent records
    recorded,        \* history: every outcome record_rebalance was given
    bracket,         \* principal -> where it is in its bracketed mint or burn
    cycle            \* the rebalance cycles: the frame of execute_swap, and history

vars == <<pending_mints, ACTIVE_MINTS, mintCall, calls, trail, issued,
          ACTIVE_BURNS, burnCall, EMERGENCY_PAUSE, ev,
          CURRENT_GLOBAL_OPERATION, LAST_OPERATION_END_TIME, now, gop,
          REBALANCING_IN_PROGRESS, rebalCall, mathIn, mathOut, burnSeen,
          snapSeen, history, recorded, bracket, cycle>>
mintVars == <<pending_mints, ACTIVE_MINTS, mintCall, calls, trail, issued>>
burnVars == <<ACTIVE_BURNS, burnCall, EMERGENCY_PAUSE>>
coordVars == <<CURRENT_GLOBAL_OPERATION, LAST_OPERATION_END_TIME, now, gop>>
rebalVars == <<REBALANCING_IN_PROGRESS, rebalCall>>
mathVars == <<mathIn, mathOut>>
ringVars == <<history, recorded>>
sideVars == <<coordVars, rebalVars, mathVars, burnSeen, snapSeen, ringVars,
             bracket, cycle>>

IdleFrame == [pc |-> "idle", mint_id |-> NoId, amount |-> 0, attempt |-> 0,
              supply |-> 0, tvl |-> 0, icpi |-> 0, err |-> "none"]
IdleBurn == [pc |-> "idle", amount |-> 0, supply |-> 0]

NoRet == [done |-> FALSE, ok |-> FALSE, val |-> 0, err |-> "none"]
RetOk(v) == [done |-> TRUE, ok |-> TRUE, val |-> v, err |-> "none"]
RetErr(e) == [done |-> TRUE, ok |-> FALSE, val |-> 0, err |-> e]
Event(act, caller, id, ret) ==
    [act |-> act, caller |-> caller, id |-> id, ret |-> ret]
\* no call has just returned
Quiet == Event("none", Anonymous, NoId, NoRet)

C(op, a, b) == [op |-> op, a |-> a, b |-> b]

\* the coordinator has not been called
NoCoordCall == [call |-> "none", op |-> "Idle", cur |-> "Idle", last |-> 0,
                at |-> 0, mints |-> FALSE, burns |-> FALSE,
                ok |-> TRUE, err |-> "none", wait_seconds |-> 0]
\* no rebalance cycle is suspended
IdleRebalance == [pc |-> "idle", by |-> "none", action |-> "None"]
\* the principal is not inside a mint or burn bracketed by the coordinator
OutOfBracket == [pc |-> "out", op |-> "Idle"]
\* no rebalance cycle has started: none is in flight, the timer has skipped no
\* tick, execute_swap holds no amounts and has made no call
NoCycle == [running |-> 0, started |-> 0, skipped |-> FALSE,
            pay_amount |-> 0, expected |-> 0, log |-> <<>>]
\* no pure function has been given arguments, none has returned
NoInput == [fn |-> "none", a |-> 0, b |-> 0, c |-> 0, balances |-> <<>>]
NotApplied == [applied |-> FALSE, ok |-> FALSE, val |-> 0, err |-> "none",
               maximum |-> 0, list |-> <<>>, failed |-> <<>>]

\* a burn_icpi that has been told nothing yet
Unseen == [ok |-> FALSE, val |-> -1, err |-> "none"]
NothingSeen == [allowance |-> Unseen, supply |-> Unseen, balance |-> Unseen,
                fee |-> "unseen"]

\* the canister after init, but for the arguments of the pure functions
InitSystem ==
    /\ pending_mints = [i \in MintIds |-> NoMint]
    /\ ACTIVE_MINTS = {}
    /\ mintCall = [p \in Principals |-> IdleFrame]
    /\ calls = [i \in MintIds |-> <<>>]
    /\ trail = [i \in MintIds |-> <<>>]
    /\ issued = [i \in MintIds |-> 0]
    /\ ACTIVE_BURNS = {}
    /\ burnCall = [p \in Principals |-> IdleBurn]
    /\ EMERGENCY_PAUSE = FALSE
    /\ ev = Quiet
    /\ CURRENT_GLOBAL_OPERATION = "Idle"
    /\ LAST_OPERATION_END_TIME = 0
    /\ now = StartTime
    /\ gop = NoCoordCall
    /\ REBALANCING_IN_PROGRESS = FALSE
    /\ rebalCall = IdleRebalance
    /\ burnSeen = [p \in Principals |-> NothingSeen]
    /\ snapSeen = [i \in MintIds |-> <<>>]
    /\ history = <<>>
    /\ recorded = <<>>
    /\ bracket = [p \in Users |-> OutOfBracket]
    /\ cycle = NoCycle

Init ==
    /\ InitSystem
    /\ mathIn = NoInput
    /\ mathOut = NotApplied

\* ----------------------------------------------------------- mint store
StoredMints == {i \in MintIds : pending_mints[i].present}

get_pending_mint(id) == IF id \in MintIds THEN pending_mints[id] ELSE NoMint

\* the status a mint is given; its trail records the order
update_mint_status(pm, id, status) == [pm EXCEPT ![id].status = status]

\* ------------------------------------------------------------ reentrancy
\* (variant) acquire without the contains check
MintGuard_acquire_unchecked(active, user) ==
    [acquired |-> TRUE, set |-> active \cup {user}]

\* MintGuard::acquire: the set after the call, and whether it was acquired
MintGuard_acquire(active, user) ==
    IF user \in active THEN [acquired |-> FALSE, set |-> active]
    ELSE [acquired |-> TRUE, set |-> active \cup {user}]

\* Drop for MintGuard
MintGuard_drop(active, user) == active \ {user}

\* ------------------------------------------------------------- minting
\* `limited`: what the per-caller cooldown finds for the caller at this time
validate_mint_request(caller, amount, limited) ==
    IF caller = Anonymous THEN Err("InvalidPrincipal")
    ELSE IF amount < MIN_MINT_AMOUNT THEN Err("AmountBelowMinimum")
    ELSE IF limited THEN Err("RateLimited")
    ELSE Ok(0)

NextMintId(caller) ==
    LET used == {i \in StoredMints : i[1] = caller}
    IN  <<caller, Cardinality(used) + 1>>

initiate_mint(caller, amount, limited) ==
    /\ ev = Quiet
    /\ LET v == validate_mint_request(caller, amount, limited) IN
       IF ~v.ok
       THEN /\ ev' = Event("initiate_mint", caller, NoId, RetErr(v.err))
            /\ UNCHANGED <<pending_mints, ACTIVE_MINTS, mintCall, calls, trail, issued>>
       ELSE LET mint_id == NextMintId(caller) IN
            /\ Cardinality(StoredMints) < MaxMints
            /\ pending_mints' = [pending_mints EXCEPT ![mint_id] =
                   [present |-> TRUE, user |-> caller, amount |-> amount,
                    status |-> St("Pending"), snapshot |-> NoSnapshot]]
            /\ trail' = [trail EXCEPT ![mint_id] = <<>>]
            /\ ev' = Event("initiate_mint", caller, mint_id, RetOk(0))
            /\ UNCHANGED <<ACTIVE_MINTS, mintCall, calls, issued>>

\* (variant) no ownership check
NotOwner_unchecked(pending_mint, caller) == FALSE

\* complete_mint's ownership check
NotOwner(pending_mint, caller) == pending_mint.user # caller

\* (variant) no idempotence check
AlreadyComplete_unchecked(pending_mint) == FALSE

\* complete_mint's idempotence check
AlreadyComplete(pending_mint) == pending_mint.status.tag = "Complete"

\* complete_mint up to the await of collect_mint_fee
complete_mint(caller, mint_id) ==
    /\ ev = Quiet
    /\ LET g == MintGuard_acquire(ACTIVE_MINTS, caller)
           pending_mint == get_pending_mint(mint_id)
       IN
       IF ~g.acquired
       THEN /\ ACTIVE_MINTS' = g.set
            /\ ev' = Event("complete_mint", caller, mint_id, RetErr("OperationInProgress"))
            /\ UNCHANGED <<pending_mints, mintCall, calls, trail, issued>>
       ELSE IF ~pending_mint.present
       THEN /\ ACTIVE_MINTS' = MintGuard_drop(g.set, caller)
            /\ ev' = Event("complete_mint", caller, mint_id, RetErr("InvalidMintId"))
            /\ UNCHANGED <<pending_mints, mintCall, calls, trail, issued>>
       ELSE IF NotOwner(pending_mint, caller)
       THEN /\ ACTIVE_MINTS' = MintGuard_drop(g.set, caller)
            /\ ev' = Event("complete_mint", caller, mint_id, RetErr("Unauthorized"))
            /\ UNCHANGED <<pending_mints, mintCall, calls, trail, issued>>
       ELSE IF AlreadyComplete(pending_mint)
       THEN /\ ACTIVE_MINTS' = MintGuard_drop(g.set, caller)
            /\ ev' = Event("complete_mint", caller, mint_id, RetOk(pending_mint.status.val))
            /\ UNCHANGED <<pending_mints, mintCall, calls, trail, issued>>
       ELSE /\ ACTIVE_MINTS' = g.set
            /\ pending_mints' = update_mint_status(pending_mints, mint_id, St("CollectingFee"))
            /\ trail' = [trail EXCEPT ![mint_id] = <<"CollectingFee">>]
            /\ calls' = [calls EXCEPT ![mint_id] = <<C("fee_call", 0, 0)>>]
            /\ mintCall' = [mintCall EXCEPT ![caller] =
                   [IdleFrame EXCEPT !.pc = "collect_mint_fee", !.mint_id = mint_id,
                                     !.amount = pending_mint.amount]]
            /\ ev' = Quiet
            /\ UNCHANGED issued

Log(id, entries) == [calls EXCEPT ![id] = @ \o entries]
Tr(id, tags) == [trail EXCEPT ![id] = @ \o tags]

\* a return of complete_mint: the guard is dropped with the frame
ReturnMint(act, caller, mint_id, ret) ==
    /\ ACTIVE_MINTS' = MintGuard_drop(ACTIVE_MINTS, caller)
    /\ mintCall' = [mintCall EXCEPT ![caller] = IdleFrame]
    /\ ev' = Event(act, caller, mint_id, ret)

\* handle_mint_failure up to the await of refund_deposit; `tags` and `entries`
\* are what the caller's segment recorded before it got here
handle_mint_failure(caller, tags, entries, e) ==
    LET f == mintCall[caller] IN
    /\ pending_mints' = update_mint_status(pending_mints, f.mint_id, St("Refunding"))
    /\ trail' = Tr(f.mint_id, tags \o <<"Refunding">>)
    /\ calls' = Log(f.mint_id, entries \o <<C("refund_call", f.amount, 0)>>)
    /\ mintCall' = [mintCall EXCEPT ![caller].pc = "refund_deposit", ![caller].err = e]
    /\ ev' = Quiet
    /\ UNCHANGED <<ACTIVE_MINTS, issued>>

\* collect_mint_fee succeeded: on to the snapshot query
FeeCollected(caller) ==
    LET f == mintCall[caller] IN
    /\ pending_mints' = update_mint_status(pending_mints, f.mint_id, St("Snapshotting"))
    /\ trail' = Tr(f.mint_id, <<"Snapshotting">>)
    /\ calls' = Log(f.mint_id, <<C("fee_ok", 0, 0), C("snapshot_call", 0, 0)>>)
    /\ mintCall' = [mintCall EXCEPT ![caller].pc = "get_supply_and_tvl_atomic",
                                    ![caller].attempt = 0]
    /\ ev' = Quiet
    /\ UNCHANGED <<ACTIVE_MINTS, issued>>

\* collect_mint_fee failed: mark Failed and return the error
FeeFailed(caller) ==
    LET f == mintCall[caller] IN
    /\ pending_mints' = update_mint_status(pending_mints, f.mint_id, St("Failed"))
    /\ trail' = Tr(f.mint_id, <<"Failed">>)
    /\ calls' = Log(f.mint_id, <<C("fee_err", 0, 0)>>)
    /\ ReturnMint("FeeReply", caller, f.mint_id, RetErr("FeeCollectionFailed"))
    /\ UNCHANGED issued

\* complete_mint from the reply of collect_mint_fee
FeeReply(caller, ok) ==
    /\ ev = Quiet
    /\ mintCall[caller].pc = "collect_mint_fee"
    /\ IF ok THEN FeeCollected(caller) ELSE FeeFailed(caller)

\* the snapshot query failed for good (retries exhausted, or inconsistent data)
SnapshotFailed(caller, e) ==
    handle_mint_failure(caller, <<>>, <<C("snapshot_err", 0, 0)>>, e)

\* (variant) the deposit transfer_from made without the TVL check
SnapshotTaken_noTvlCheck(caller, current_supply, current_tvl) ==
    LET f == mintCall[caller] IN
    /\ pending_mints' =
          update_mint_status(
              [pending_mints EXCEPT ![f.mint_id].snapshot =
                  [set |-> TRUE, supply |-> current_supply, tvl |-> current_tvl]],
              f.mint_id, St("CollectingDeposit"))
    /\ trail' = Tr(f.mint_id, <<"CollectingDeposit">>)
    /\ calls' = Log(f.mint_id, <<C("snapshot_ok", current_supply, current_tvl),
                                 C("deposit_call", f.amount, 0)>>)
    /\ mintCall' = [mintCall EXCEPT ![caller].pc = "collect_deposit",
                                    ![caller].supply = current_supply,
                                    ![caller].tvl = current_tvl]
    /\ ev' = Quiet
    /\ UNCHANGED <<ACTIVE_MINTS, issued>>

\* the snapshot is in hand: the TVL check, then the deposit transfer_from
SnapshotTaken(caller, current_supply, current_tvl) ==
    LET f == mintCall[caller] IN
    IF current_tvl = 0
    THEN /\ pending_mints' = update_mint_status(pending_mints, f.mint_id, St("Failed"))
         /\ trail' = Tr(f.mint_id, <<"Failed">>)
         /\ calls' = Log(f.mint_id, <<C("snapshot_ok", current_supply, current_tvl)>>)
         /\ ReturnMint("SnapshotReply", caller, f.mint_id, RetErr("InsufficientTVL"))
         /\ UNCHANGED issued
    ELSE /\ pending_mints' =
               update_mint_status(
                   [pending_mints EXCEPT ![f.mint_id].snapshot =
                       [set |-> TRUE, supply |-> current_supply, tvl |-> current_tvl]],
                   f.mint_id, St("CollectingDeposit"))
         /\ trail' = Tr(f.mint_id, <<"CollectingDeposit">>)
         /\ calls' = Log(f.mint_id, <<C("snapshot_ok", current_supply, current_tvl),
                                      C("deposit_call", f.amount, 0)>>)
         /\ mintCall' = [mintCall EXCEPT ![caller].pc = "collect_deposit",
                                         ![caller].supply = current_supply,
                                         ![caller].tvl = current_tvl]
         /\ ev' = Quiet
         /\ UNCHANGED <<ACTIVE_MINTS, issued>>

\* complete_mint from the reply of one attempt of get_supply_and_tvl_atomic:
\* the next attempt, the refund handler, the return or the deposit transfer
SnapshotReply(caller, supply_result, tvl_result) ==
    LET f == mintCall[caller] IN
    /\ ev = Quiet
    /\ f.pc = "get_supply_and_tvl_atomic"
    /\ IF supply_result.ok /\ tvl_result.ok
       THEN LET r == validate_and_return_snapshot(supply_result.val, tvl_result.val) IN
            IF ~r.ok THEN SnapshotFailed(caller, r.err)
            ELSE SnapshotTaken(caller, r.supply, r.tvl)
       ELSE IF f.attempt < MAX_RETRIES
            THEN /\ mintCall' = [mintCall EXCEPT ![caller].attempt = f.attempt + 1]
                 /\ ev' = Quiet
                 /\ UNCHANGED <<pending_mints, ACTIVE_MINTS, calls, trail, issued>>
            ELSE SnapshotFailed(caller, IF ~supply_result.ok THEN supply_result.err
                                        ELSE tvl_result.err)

\* (variant) a failed collect_deposit handled like a failure after the deposit
DepositFailed_refunds(caller) ==
    handle_mint_failure(caller, <<>>, <<C("deposit_err", 0, 0)>>,
                        "DepositCollectionFailed")

\* collect_deposit failed: mark Failed and return the error
DepositFailed(caller) ==
    LET f == mintCall[caller] IN
    /\ pending_mints' = update_mint_status(pending_mints, f.mint_id, St("Failed"))
    /\ trail' = Tr(f.mint_id, <<"Failed">>)
    /\ calls' = Log(f.mint_id, <<C("deposit_err", 0, 0)>>)
    /\ ReturnMint("DepositReply", caller, f.mint_id, RetErr("DepositCollectionFailed"))
    /\ UNCHANGED issued

\* (variant) the ledger call made straight from Calculating
DepositCollected_skipsMinting(caller) ==
    LET f == mintCall[caller]
        icpi_to_mint == calculate_mint_amount(f.amount, f.supply, f.tvl)
    IN
    IF ~icpi_to_mint.ok
    THEN handle_mint_failure(caller, <<"Calculating">>,
                             <<C("deposit_ok", 0, 0)>>, icpi_to_mint.err)
    ELSE /\ pending_mints' = update_mint_status(pending_mints, f.mint_id, St("Calculating"))
         /\ trail' = Tr(f.mint_id, <<"Calculating">>)
         /\ calls' = Log(f.mint_id, <<C("deposit_ok", 0, 0),
                                      C("issue_call", icpi_to_mint.val, 0)>>)
         /\ mintCall' = [mintCall EXCEPT ![caller].pc = "mint_icpi_on_ledger",
                                         ![caller].icpi = icpi_to_mint.val]
         /\ ev' = Quiet
         /\ UNCHANGED <<ACTIVE_MINTS, issued>>

\* (variant) the mint amount computed against the TVL as it is after the
\* deposit has arrived
DepositCollected_postDepositTvl(caller) ==
    LET f == mintCall[caller]
        icpi_to_mint == calculate_mint_amount(f.amount, f.supply, f.tvl + f.amount)
    IN
    IF ~icpi_to_mint.ok
    THEN handle_mint_failure(caller, <<"Calculating">>,
                             <<C("deposit_ok", 0, 0)>>, icpi_to_mint.err)
    ELSE /\ pending_mints' = update_mint_status(pending_mints, f.mint_id, St("Minting"))
         /\ trail' = Tr(f.mint_id, <<"Calculating", "Minting">>)
         /\ calls' = Log(f.mint_id, <<C("deposit_ok", 0, 0),
                                      C("issue_call", icpi_to_mint.val, 0)>>)
         /\ mintCall' = [mintCall EXCEPT ![caller].pc = "mint_icpi_on_ledger",
                                         ![caller].icpi = icpi_to_mint.val]
         /\ ev' = Quiet
         /\ UNCHANGED <<ACTIVE_MINTS, issued>>

\* collect_deposit succeeded: Calculating, then Minting and the ledger call
DepositCollected(caller) ==
    LET f == mintCall[caller]
        icpi_to_mint == calculate_mint_amount(f.amount, f.supply, f.tvl)
    IN
    IF ~icpi_to_mint.ok
    THEN handle_mint_failure(caller, <<"Calculating">>,
                             <<C("deposit_ok", 0, 0)>>, icpi_to_mint.err)
    ELSE /\ pending_mints' = update_mint_status(pending_mints, f.mint_id, St("Minting"))
         /\ trail' = Tr(f.mint_id, <<"Calculating", "Minting">>)
         /\ calls' = Log(f.mint_id, <<C("deposit_ok", 0, 0),
                                      C("issue_call", icpi_to_mint.val, 0)>>)
         /\ mintCall' = [mintCall EXCEPT ![caller].pc = "mint_icpi_on_ledger",
                                         ![caller].icpi = icpi_to_mint.val]
         /\ ev' = Quiet
         /\ UNCHANGED <<ACTIVE_MINTS, issued>>

\* complete_mint from the reply of collect_deposit
DepositReply(caller, ok) ==
    /\ ev = Quiet
    /\ mintCall[caller].pc = "collect_deposit"
    /\ IF ok THEN DepositCollected(caller) ELSE DepositFailed(caller)

\* mint_icpi_on_ledger succeeded: Complete, return the amount
Issued(caller) ==
    LET f == mintCall[caller] IN
    /\ pending_mints' = update_mint_status(pending_mints, f.mint_id, Complete(f.icpi))
    /\ trail' = Tr(f.mint_id, <<"Complete">>)
    /\ calls' = Log(f.mint_id, <<C("issue_ok", f.icpi, 0)>>)
    /\ issued' = [issued EXCEPT ![f.mint_id] = @ + 1]
    /\ ReturnMint("IssueReply", caller, f.mint_id, RetOk(f.icpi))

\* complete_mint from the reply of mint_icpi_on_ledger
IssueReply(caller, ok) ==
    /\ ev = Quiet
    /\ mintCall[caller].pc = "mint_icpi_on_ledger"
    /\ IF ok THEN Issued(caller)
       ELSE handle_mint_failure(caller, <<>>,
                                <<C("issue_err", 0, 0)>>, "LedgerInteractionFailed")

\* (variant) the refund's outcome is not looked at
RefundReply_ignoresOutcome(caller, ok) ==
    LET f == mintCall[caller] IN
    /\ ev = Quiet
    /\ f.pc = "refund_deposit"
    /\ pending_mints' = update_mint_status(pending_mints, f.mint_id, St("FailedRefunded"))
    /\ trail' = Tr(f.mint_id, <<"FailedRefunded">>)
    /\ calls' = Log(f.mint_id, <<C(IF ok THEN "refund_ok" ELSE "refund_err", f.amount, 0)>>)
    /\ ReturnMint("RefundReply", caller, f.mint_id, RetErr(f.err))
    /\ UNCHANGED issued

\* handle_mint_failure from the reply of refund_deposit, and complete_mint's
\* return of the error that led to it
RefundReply(caller, ok) ==
    LET f == mintCall[caller] IN
    /\ ev = Quiet
    /\ f.pc = "refund_deposit"
    /\ pending_mints' = update_mint_status(pending_mints, f.mint_id,
                            IF ok THEN St("FailedRefunded") ELSE St("FailedNoRefund"))
    /\ trail' = Tr(f.mint_id, <<IF ok THEN "FailedRefunded" ELSE "FailedNoRefund">>)
    /\ calls' = Log(f.mint_id, <<C(IF ok THEN "refund_ok" ELSE "refund_err", f.amount, 0)>>)
    /\ ReturnMint("RefundReply", caller, f.mint_id, RetErr(f.err))
    /\ UNCHANGED issued

\* ------------------------------------------------------------- burning
\* BurnGuard::acquire: the set after the call, and whether it was acquired
BurnGuard_acquire(active, user) ==
    IF user \in active THEN [acquired |-> FALSE, set |-> active]
    ELSE [acquired |-> TRUE, set |-> active \cup {user}]

\* (variant) a drop that leaves the principal in the set
BurnGuard_drop_keeps(active, user) == active

\* Drop for BurnGuard
BurnGuard_drop(active, user) == active \ {user}

check_not_paused == IF EMERGENCY_PAUSE THEN Err("Paused") ELSE Ok(0)

\* set_pause, behind emergency_pause / emergency_unpause
set_pause(paused) ==
    /\ ev = Quiet
    /\ EMERGENCY_PAUSE' = paused
    /\ EMERGENCY_PAUSE' # EMERGENCY_PAUSE
    /\ ev' = Quiet
    /\ UNCHANGED <<ACTIVE_BURNS, burnCall>>

\* `limited`: what check_rate_limit finds for the caller at this time
validate_burn_request(caller, amount, limited) ==
    IF caller = Anonymous THEN Err("InvalidPrincipal")
    ELSE IF amount < MIN_BURN_AMOUNT THEN Err("AmountBelowMinimum")
    ELSE IF limited THEN Err("RateLimited")
    ELSE Ok(0)

\* u128::checked_mul
checked_mul(a, b) == IF a * b > U128_MAX THEN Err("Overflow") ELSE Ok(a * b)

\* (variant) a limit that already refuses a burn of exactly 10% of the supply
validate_burn_limit_strict(amount, supply) ==
    IF supply > U128_MAX \/ amount > U128_MAX THEN Err("Other")
    ELSE IF ~checked_mul(amount, 100).ok \/ ~checked_mul(supply, 10).ok
    THEN Err("Other")
    ELSE IF amount * 100 >= supply * 10
    THEN [ok |-> FALSE, val |-> (supply * 10) \div 100, err |-> "AmountExceedsMaximum"]
    ELSE Ok(0)

\* validate_burn_limit: Nat -> u128, both sides scaled with checked_mul, then
\* compared; the value of a refusal is the `maximum` field of the error
validate_burn_limit(amount, supply) ==
    IF supply > U128_MAX THEN Err("Other")
    ELSE IF amount > U128_MAX THEN Err("Other")
    ELSE LET amount_scaled == checked_mul(amount, 100)
             supply_scaled == checked_mul(supply, 10)
         IN  IF ~amount_scaled.ok THEN Err("Other")
             ELSE IF ~supply_scaled.ok THEN Err("Other")
             ELSE IF amount_scaled.val > supply_scaled.val
             THEN [ok |-> FALSE, val |-> supply_scaled.val \div 100,
                   err |-> "AmountExceedsMaximum"]
             ELSE Ok(0)

\* a return of burn_icpi: the guard is dropped with the frame
ReturnBurn(act, caller, ret) ==
    /\ ACTIVE_BURNS' = BurnGuard_drop(ACTIVE_BURNS, caller)
    /\ burnCall' = [burnCall EXCEPT ![caller] = IdleBurn]
    /\ ev' = Event(act, caller, NoId, ret)
    /\ UNCHANGED EMERGENCY_PAUSE

\* burn_icpi goes on to its next external call
BurnGoes(caller, pc) ==
    /\ burnCall' = [burnCall EXCEPT ![caller].pc = pc]
    /\ ev' = Quiet
    /\ UNCHANGED <<ACTIVE_BURNS, EMERGENCY_PAUSE>>

\* burn_icpi up to the await of icrc2_allowance
burn_icpi(caller, amount, limited) ==
    /\ ev = Quiet
    /\ IF ~check_not_paused.ok
       THEN /\ ev' = Event("burn_icpi", caller, NoId, RetErr(check_not_paused.err))
            /\ UNCHANGED burnVars
       ELSE LET g == BurnGuard_acquire(ACTIVE_BURNS, caller)
                v == validate_burn_request(caller, amount, limited)
            IN
            IF ~g.acquired
            THEN /\ ACTIVE_BURNS' = g.set
                 /\ ev' = Event("burn_icpi", caller, NoId, RetErr("OperationInProgress"))
                 /\ UNCHANGED <<burnCall, EMERGENCY_PAUSE>>
            ELSE IF ~v.ok
            THEN /\ ACTIVE_BURNS' = BurnGuard_drop(g.set, caller)
                 /\ ev' = Event("burn_icpi", caller, NoId, RetErr(v.err))
                 /\ UNCHANGED <<burnCall, EMERGENCY_PAUSE>>
            ELSE /\ ACTIVE_BURNS' = g.set
                 /\ burnCall' = [burnCall EXCEPT ![caller] =
                        [IdleBurn EXCEPT !.pc = "icrc2_allowance", !.amount = amount]]
                 /\ ev' = Quiet
                 /\ UNCHANGED EMERGENCY_PAUSE

\* burn_icpi from the reply of icrc2_allowance: a failed query is only logged
AllowanceReply(caller, allowance_result) ==
    /\ ev = Quiet
    /\ burnCall[caller].pc = "icrc2_allowance"
    /\ IF allowance_result.ok /\ allowance_result.val < MINT_FEE_AMOUNT
       THEN ReturnBurn("AllowanceReply", caller, RetErr("InsufficientFeeAllowance"))
       ELSE BurnGoes(caller, "get_icpi_supply_uncached")

\* burn_icpi from the reply of the supply query
BurnSupplyReply(caller, supply_result) ==
    /\ ev = Quiet
    /\ burnCall[caller].pc = "get_icpi_supply_uncached"
    /\ IF ~supply_result.ok
       THEN ReturnBurn("BurnSupplyReply", caller, RetErr("QueryError"))
       ELSE IF supply_result.val = 0
       THEN ReturnBurn("BurnSupplyReply", caller, RetErr("NoSupply"))
       ELSE LET v == validate_burn_limit(burnCall[caller].amount, supply_result.val) IN
            IF ~v.ok THEN ReturnBurn("BurnSupplyReply", caller, RetErr(v.err))
            ELSE /\ burnCall' = [burnCall EXCEPT ![caller].pc = "icrc1_balance_of",
                                                 ![caller].supply = supply_result.val]
                 /\ ev' = Quiet
                 /\ UNCHANGED <<ACTIVE_BURNS, EMERGENCY_PAUSE>>

\* burn_icpi from the reply of icrc1_balance_of
BalanceReply(caller, user_balance_result) ==
    /\ ev = Quiet
    /\ burnCall[caller].pc = "icrc1_balance_of"
    /\ IF ~user_balance_result.ok
       THEN ReturnBurn("BalanceReply", caller, RetErr("CanisterUnreachable"))
       ELSE IF user_balance_result.val < burnCall[caller].amount
       THEN ReturnBurn("BalanceReply", caller, RetErr("InsufficientBalance"))
       ELSE BurnGoes(caller, "collect_mint_fee")

\* (variant) a burn that pulls the index tokens whatever the fee transfer did
BurnFeeReply_ignoresFailure(caller, ok) ==
    /\ ev = Quiet
    /\ burnCall[caller].pc = "collect_mint_fee"
    /\ BurnGoes(caller, "icrc2_transfer_from")

\* burn_icpi from the reply of collect_mint_fee
BurnFeeReply(caller, ok) ==
    /\ ev = Quiet
    /\ burnCall[caller].pc = "collect_mint_fee"
    /\ IF ok THEN BurnGoes(caller, "icrc2_transfer_from")
       ELSE ReturnBurn("BurnFeeReply", caller, RetErr("FeeCollectionFailed"))

\* burn_icpi from the reply of icrc2_transfer_from of the ICPI
BurnTransferReply(caller, transfer_result) ==
    /\ ev = Quiet
    /\ burnCall[caller].pc = "icrc2_transfer_from"
    /\ IF transfer_result = "Ok" THEN BurnGoes(caller, "calculate_redemptions")
       ELSE IF transfer_result = "InsufficientAllowance"
       THEN ReturnBurn("BurnTransferReply", caller, RetErr("InsufficientApproval"))
       ELSE ReturnBurn("BurnTransferReply", caller, RetErr("TokenTransferFailed"))

\* burn_icpi from the reply of calculate_redemptions
RedemptionReply(caller, ok) ==
    /\ ev = Quiet
    /\ burnCall[caller].pc = "calculate_redemptions"
    /\ IF ok THEN BurnGoes(caller, "distribute_tokens")
       ELSE ReturnBurn("RedemptionReply", caller, RetErr("RedemptionFailed"))

\* burn_icpi from the reply of distribute_tokens: the return of the BurnResult
DistributeReply(caller, ok) ==
    /\ ev = Quiet
    /\ burnCall[caller].pc = "distribute_tokens"
    /\ ReturnBurn("DistributeReply", caller,
                  IF ok THEN RetOk(burnCall[caller].amount) ELSE RetErr("DistributionFailed"))

\* ------------------------------------------------- global operation state
GlobalOperations == {"Idle", "Minting", "Burning", "Rebalancing"}

CoordOk == [ok |-> TRUE, err |-> "none", wait_seconds |-> 0]
CoordErr(e, w) == [ok |-> FALSE, err |-> e, wait_seconds |-> w]

\* (variant) a grace-period test that is also made on a start from Idle
GraceActive_fromIdle(current_op, op, last_end, t) ==
    /\ current_op # op
    /\ last_end > 0
    /\ t > last_end
    /\ (t - last_end) < GRACE_PERIOD_NANOS

\* the grace-period test of try_start_global_operation, at time t
GraceActive(current_op, op, last_end, t) ==
    /\ current_op # "Idle"
    /\ current_op # op
    /\ last_end > 0
    /\ t > last_end
    /\ (t - last_end) < GRACE_PERIOD_NANOS

\* (variant) a table that lets a rebalance start beside a mint or a burn
TryStartResult_noConflict(current_op, op, last_end, t) ==
    IF GraceActive(current_op, op, last_end, t)
    THEN CoordErr("GracePeriodActive",
                  (GRACE_PERIOD_NANOS - (t - last_end)) \div TicksPerSecond)
    ELSE IF current_op = "Idle" THEN CoordOk
    ELSE IF op = "Idle" THEN CoordErr("StateCorrupted", 0)
    ELSE CoordOk

\* (variant) a table without the row that refuses a request for Idle
TryStartResult_idleAllowed(current_op, op, last_end, t) ==
    IF GraceActive(current_op, op, last_end, t)
    THEN CoordErr("GracePeriodActive",
                  (GRACE_PERIOD_NANOS - (t - last_end)) \div TicksPerSecond)
    ELSE IF current_op = "Idle" \/ op = "Idle" THEN CoordOk
    ELSE IF current_op = "Rebalancing" /\ op \in {"Minting", "Burning"}
    THEN CoordErr("RebalancingInProgress", 0)
    ELSE IF current_op \in {"Minting", "Burning"} /\ op = "Rebalancing"
    THEN CoordErr("CriticalOperationInProgress", 0)
    ELSE CoordOk

\* (variant) a table in which a mint and a burn exclude each other
TryStartResult_exclusive(current_op, op, last_end, t) ==
    IF GraceActive(current_op, op, last_end, t)
    THEN CoordErr("GracePeriodActive",
                  (GRACE_PERIOD_NANOS - (t - last_end)) \div TicksPerSecond)
    ELSE IF current_op = "Idle" THEN CoordOk
    ELSE IF op = "Idle" THEN CoordErr("StateCorrupted", 0)
    ELSE IF current_op = "Rebalancing" /\ op \in {"Minting", "Burning"}
    THEN CoordErr("RebalancingInProgress", 0)
    ELSE IF current_op # op
    THEN CoordErr("CriticalOperationInProgress", 0)
    ELSE CoordOk

\* what try_start_global_operation(op) returns at time t
TryStartResult(current_op, op, last_end, t) ==
    IF GraceActive(current_op, op, last_end, t)
    THEN CoordErr("GracePeriodActive",
                  (GRACE_PERIOD_NANOS - (t - last_end)) \div TicksPerSecond)
    ELSE IF current_op = "Idle" THEN CoordOk
    ELSE IF op = "Idle" THEN CoordErr("StateCorrupted", 0)
    ELSE IF current_op = "Rebalancing" /\ op \in {"Minting", "Burning"}
    THEN CoordErr("RebalancingInProgress", 0)
    ELSE IF current_op \in {"Minting", "Burning"} /\ op = "Rebalancing"
    THEN CoordErr("CriticalOperationInProgress", 0)
    ELSE CoordOk

CoordCall(call, op, r) ==
    [call |-> call, op |-> op, cur |-> CURRENT_GLOBAL_OPERATION,
     last |-> LAST_OPERATION_END_TIME, at |-> now,
     mints |-> ACTIVE_MINTS # {}, burns |-> ACTIVE_BURNS # {},
     ok |-> r.ok, err |-> r.err, wait_seconds |-> r.wait_seconds]

\* try_start_global_operation: only a start from Idle writes the state
try_start_global_operation(op) ==
    LET r == TryStartResult(CURRENT_GLOBAL_OPERATION, op,
                            LAST_OPERATION_END_TIME, now)
    IN
    /\ CURRENT_GLOBAL_OPERATION' =
           IF r.ok /\ CURRENT_GLOBAL_OPERATION = "Idle" /\ op # "Idle"
           THEN op ELSE CURRENT_GLOBAL_OPERATION
    /\ gop' = CoordCall("try_start_global_operation", op, r)
    /\ UNCHANGED <<LAST_OPERATION_END_TIME, now>>

\* (variant) an end of rebalancing that waits for the mints and the burns
EndsToIdle_rebalanceWaits(current_op, op) ==
    /\ current_op = op
    /\ op \in {"Minting", "Burning", "Rebalancing"}
    /\ ACTIVE_MINTS = {}
    /\ ACTIVE_BURNS = {}

\* (variant) an end of a mint or a burn that looks at the mints only
EndsToIdle_mintsOnly(current_op, op) ==
    \/ current_op = "Rebalancing" /\ op = "Rebalancing"
    \/ /\ current_op = op
       /\ op \in {"Minting", "Burning"}
       /\ ACTIVE_MINTS = {}

\* does end_global_operation(op) take the state to Idle
EndsToIdle(current_op, op) ==
    \/ current_op = "Rebalancing" /\ op = "Rebalancing"
    \/ /\ current_op = op
       /\ op \in {"Minting", "Burning"}
       /\ ACTIVE_MINTS = {}
       /\ ACTIVE_BURNS = {}

end_global_operation(op) ==
    /\ IF EndsToIdle(CURRENT_GLOBAL_OPERATION, op)
       THEN /\ CURRENT_GLOBAL_OPERATION' = "Idle"
            /\ LAST_OPERATION_END_TIME' = now
       ELSE UNCHANGED <<CURRENT_GLOBAL_OPERATION, LAST_OPERATION_END_TIME>>
    /\ gop' = CoordCall("end_global_operation", op, CoordOk)
    /\ UNCHANGED now

get_current_operation == CURRENT_GLOBAL_OPERATION

has_active_operations ==
    \/ ACTIVE_MINTS # {}
    \/ ACTIVE_BURNS # {}
    \/ get_current_operation # "Idle"

\* time passes between two messages: the next one arrives at instant t
Tick(t) ==
    /\ t > now
    /\ now' = t
    /\ UNCHANGED <<CURRENT_GLOBAL_OPERATION, LAST_OPERATION_END_TIME, gop>>

\* a caller of the coordinator takes or drops a per-user guard
HoldMintGuard(user) ==
    /\ ACTIVE_MINTS' = MintGuard_acquire(ACTIVE_MINTS, user).set
    /\ UNCHANGED <<ACTIVE_BURNS, coordVars>>

DropMintGuard(user) ==
    /\ user \in ACTIVE_MINTS
    /\ ACTIVE_MINTS' = MintGuard_drop(ACTIVE_MINTS, user)
    /\ UNCHANGED <<ACTIVE_BURNS, coordVars>>

HoldBurnGuard(user) ==
    /\ ACTIVE_BURNS' = BurnGuard_acquire(ACTIVE_BURNS, user).set
    /\ UNCHANGED <<ACTIVE_MINTS, coordVars>>

DropBurnGuard(user) ==
    /\ user \in ACTIVE_BURNS
    /\ ACTIVE_BURNS' = BurnGuard_drop(ACTIVE_BURNS, user)
    /\ UNCHANGED <<ACTIVE_MINTS, coordVars>>

\* ----------------------------------------------------------- rebalancing
Admin == "admin"
require_admin(caller) == IF caller = Admin THEN Ok(0) ELSE Err("Unauthorized")

\* the closure of start_rebalancing_timer, when no cycle is running: it takes
\* the flag and runs hourly_rebalance up to the await of the index state.
\* (When a cycle is running the closure returns and nothing changes.)
TimerFires ==
    /\ ev = Quiet
    /\ ~REBALANCING_IN_PROGRESS
    /\ REBALANCING_IN_PROGRESS' = TRUE
    /\ rebalCall' = [IdleRebalance EXCEPT !.pc = "get_index_state_cached",
                                          !.by = "timer"]
    /\ ev' = Quiet

\* perform_rebalance behind its admin check, up to the same await
perform_rebalance(caller) ==
    /\ ev = Quiet
    /\ IF ~require_admin(caller).ok
       THEN /\ ev' = Event("perform_rebalance", caller, NoId,
                           RetErr(require_admin(caller).err))
            /\ UNCHANGED rebalVars
       ELSE IF REBALANCING_IN_PROGRESS
       THEN /\ ev' = Event("perform_rebalance", caller, NoId,
                           RetErr("RebalancingInProgress"))
            /\ UNCHANGED rebalVars
       ELSE /\ REBALANCING_IN_PROGRESS' = TRUE
            /\ rebalCall' = [IdleRebalance EXCEPT !.pc = "get_index_state_cached",
                                                  !.by = "admin"]
            /\ ev' = Quiet

\* hourly_rebalance returns: the flag is cleared; the timer only prints
ReturnRebalance(act, ret) ==
    /\ REBALANCING_IN_PROGRESS' = FALSE
    /\ rebalCall' = IdleRebalance
    /\ ev' = IF rebalCall.by = "admin" THEN Event(act, Admin, NoId, ret) ELSE Quiet

RebalanceGoes(pc, action) ==
    /\ rebalCall' = [rebalCall EXCEPT !.pc = pc, !.action = action]
    /\ ev' = Quiet
    /\ UNCHANGED REBALANCING_IN_PROGRESS

\* hourly_rebalance from the index state: `action` is what
\* get_rebalancing_action finds in it
IndexStateReply(action) ==
    /\ ev = Quiet
    /\ rebalCall.pc = "get_index_state_cached"
    /\ CASE action = "None" -> ReturnRebalance("IndexStateReply", RetOk(0))
         [] action = "Buy" -> RebalanceGoes("execute_swap", action)
         [] action = "Sell" -> RebalanceGoes("get_token_price_in_usdt", action)

\* execute_sell_action from the price of the token
PriceReply(ok) ==
    /\ ev = Quiet
    /\ rebalCall.pc = "get_token_price_in_usdt"
    /\ IF ok THEN RebalanceGoes("get_token_balance_uncached", rebalCall.action)
       ELSE ReturnRebalance("PriceReply", RetErr("QueryError"))

\* execute_sell_action from the balance of the token
TokenBalanceReply(answer) ==
    /\ ev = Quiet
    /\ rebalCall.pc = "get_token_balance_uncached"
    /\ CASE answer = "failed" -> ReturnRebalance("TokenBalanceReply", RetErr("QueryError"))
         [] answer = "short" ->
                ReturnRebalance("TokenBalanceReply", RetErr("InsufficientBalance"))
         [] answer = "enough" -> RebalanceGoes("execute_swap", rebalCall.action)

\* execute_buy_action / execute_sell_action from the reply of execute_swap
SwapReply(ok) ==
    /\ ev = Quiet
    /\ rebalCall.pc = "execute_swap"
    /\ ReturnRebalance("SwapReply", IF ok THEN RetOk(0) ELSE RetErr("SwapFailed"))

\* ------------------------------------------------------------ the system
\* the response of the call that just returned leaves the canister
Respond ==
    /\ ev # Quiet
    /\ ev' = Quiet
    /\ UNCHANGED <<mintVars, burnVars, sideVars>>

\* ids a caller can name: the stored ones and one that names no mint
CallableIds == StoredMints \cup {NoId}

\* the mint state machine alone
Next ==
    \/ \E caller \in Principals, amount \in Deposits, limited \in BOOLEAN :
          initiate_mint(caller, amount, limited) /\ UNCHANGED <<burnVars, sideVars>>
    \/ \E caller \in Principals, mint_id \in CallableIds :
          complete_mint(caller, mint_id) /\ UNCHANGED <<burnVars, sideVars>>
    \/ \E caller \in Principals, ok \in BOOLEAN :
          FeeReply(caller, ok) /\ UNCHANGED <<burnVars, sideVars>>
    \/ \E caller \in Principals, s \in SupplyAnswers, t \in TvlAnswers :
          SnapshotReply(caller, s, t) /\ UNCHANGED <<burnVars, sideVars>>
    \/ \E caller \in Principals, ok \in BOOLEAN :
          DepositReply(caller, ok) /\ UNCHANGED <<burnVars, sideVars>>
    \/ \E caller \in Principals, ok \in BOOLEAN :
          IssueReply(caller, ok) /\ UNCHANGED <<burnVars, sideVars>>
    \/ \E caller \in Principals, ok \in BOOLEAN :
          RefundReply(caller, ok) /\ UNCHANGED <<burnVars, sideVars>>
    \/ Respond

Spec == Init /\ [][Next]_vars

\* mints, burns and the pause switch side by side; one user opens mints here
OpsMinters == {"u1", Anonymous}
NextOps ==
    \/ \E caller \in OpsMinters, amount \in Deposits, limited \in BOOLEAN :
          /\ Cardinality(StoredMints) < MaxOpsMints
          /\ initiate_mint(caller, amount, limited) /\ UNCHANGED <<burnVars, sideVars>>
    \/ \E caller \in Principals, mint_id \in CallableIds :
          complete_mint(caller, mint_id) /\ UNCHANGED <<burnVars, sideVars>>
    \/ \E caller \in Principals, ok \in BOOLEAN :
          FeeReply(caller, ok) /\ UNCHANGED <<burnVars, sideVars>>
    \/ \E caller \in Principals, s \in SupplyAnswers, t \in TvlAnswers :
          SnapshotReply(caller, s, t) /\ UNCHANGED <<burnVars, sideVars>>
    \/ \E caller \in Principals, ok \in BOOLEAN :
          DepositReply(caller, ok) /\ UNCHANGED <<burnVars, sideVars>>
    \/ \E caller \in Principals, ok \in BOOLEAN :
          IssueReply(caller, ok) /\ UNCHANGED <<burnVars, sideVars>>
    \/ \E caller \in Principals, ok \in BOOLEAN :
          RefundReply(caller, ok) /\ UNCHANGED <<burnVars, sideVars>>
    \/ \E paused \in BOOLEAN : set_pause(paused) /\ UNCHANGED <<mintVars, sideVars>>
    \/ \E caller \in Principals, amount \in BurnAmounts, limited \in BOOLEAN :
          burn_icpi(caller, amount, limited) /\ UNCHANGED <<mintVars, sideVars>>
    \/ \E caller \in Principals, a \in AllowanceAnswers :
          AllowanceReply(caller, a) /\ UNCHANGED <<mintVars, sideVars>>
    \/ \E caller \in Principals, s \in BurnSupplyAnswers :
          BurnSupplyReply(caller, s) /\ UNCHANGED <<mintVars, sideVars>>
    \/ \E caller \in Principals, b \in BalanceAnswers :
          BalanceReply(caller, b) /\ UNCHANGED <<mintVars, sideVars>>
    \/ \E caller \in Principals, ok \in BOOLEAN :
          BurnFeeReply(caller, ok) /\ UNCHANGED <<mintVars, sideVars>>
    \/ \E caller \in Principals, r \in TransferAnswers :
          BurnTransferReply(caller, r) /\ UNCHANGED <<mintVars, sideVars>>
    \/ \E caller \in Principals, ok \in BOOLEAN :
          RedemptionReply(caller, ok) /\ UNCHANGED <<mintVars, sideVars>>
    \/ \E caller \in Principals, ok \in BOOLEAN :
          DistributeReply(caller, ok) /\ UNCHANGED <<mintVars, sideVars>>
    \/ Respond

SpecOps == Init /\ [][NextOps]_vars

\* one user's mints with the replies to every attempt of the snapshot on
\* record, the failed queries telling what failed
SnapSupplyAnswers ==
    {QueryFailed("SupplyUnreachable"), QueryFailed("SupplyRejected"), Answer(0), Answer(2)}
SnapTvlAnswers ==
    {QueryFailed("TvlUnreachable"), QueryFailed("TvlRejected"), Answer(0), Answer(2)}
restOfSnap == <<burnVars, coordVars, rebalVars, mathVars, burnSeen, ringVars,
               bracket, cycle>>
NextSnap ==
    \/ \E caller \in OpsMinters, amount \in Deposits, limited \in BOOLEAN :
          /\ Cardinality(StoredMints) < MaxOpsMints
          /\ initiate_mint(caller, amount, limited) /\ UNCHANGED <<restOfSnap, snapSeen>>
    \/ \E caller \in Principals, mint_id \in CallableIds :
          complete_mint(caller, mint_id) /\ UNCHANGED <<restOfSnap, snapSeen>>
    \/ \E caller \in Principals, ok \in BOOLEAN :
          /\ FeeReply(caller, ok)
          /\ snapSeen' = [snapSeen EXCEPT ![mintCall[caller].mint_id] = <<>>]
          /\ UNCHANGED restOfSnap
    \/ \E caller \in Principals, s \in SnapSupplyAnswers, t \in SnapTvlAnswers :
          /\ SnapshotReply(caller, s, t)
          /\ snapSeen' = [snapSeen EXCEPT ![mintCall[caller].mint_id] =
                              Append(@, [supply |-> s, tvl |-> t])]
          /\ UNCHANGED restOfSnap
    \/ \E caller \in Principals, ok \in BOOLEAN :
          DepositReply(caller, ok) /\ UNCHANGED <<restOfSnap, snapSeen>>
    \/ \E caller \in Principals, ok \in BOOLEAN :
          IssueReply(caller, ok) /\ UNCHANGED <<restOfSnap, snapSeen>>
    \/ \E caller \in Principals, ok \in BOOLEAN :
          RefundReply(caller, ok) /\ UNCHANGED <<restOfSnap, snapSeen>>
    \/ Respond

SpecSnap == Init /\ [][NextSnap]_vars

\* burn_icpi and the pause switch alone, with what each run was told on record
Seen(caller, field, answer) ==
    IF field = "allowance" THEN [burnSeen EXCEPT ![caller].allowance = answer]
    ELSE IF field = "supply" THEN [burnSeen EXCEPT ![caller].supply = answer]
    ELSE [burnSeen EXCEPT ![caller].balance = answer]
restOfBurn == <<mintVars, coordVars, rebalVars, mathVars, snapSeen, ringVars,
               bracket, cycle>>
NextBurn ==
    \/ \E paused \in BOOLEAN : set_pause(paused) /\ UNCHANGED <<restOfBurn, burnSeen>>
    \/ \E caller \in Principals, amount \in BurnAmounts, limited \in BOOLEAN :
          /\ burn_icpi(caller, amount, limited)
          /\ burnSeen' = IF burnCall'[caller] # burnCall[caller]
                         THEN [burnSeen EXCEPT ![caller] = NothingSeen]
                         ELSE burnSeen
          /\ UNCHANGED restOfBurn
    \/ \E caller \in Principals, a \in AllowanceAnswers :
          /\ AllowanceReply(caller, a)
          /\ burnSeen' = Seen(caller, "allowance", a)
          /\ UNCHANGED restOfBurn
    \/ \E caller \in Principals, s \in BurnSupplyAnswers :
          /\ BurnSupplyReply(caller, s)
          /\ burnSeen' = Seen(caller, "supply", s)
          /\ UNCHANGED restOfBurn
    \/ \E caller \in Principals, b \in BalanceAnswers :
          /\ BalanceReply(caller, b)
          /\ burnSeen' = Seen(caller, "balance", b)
          /\ UNCHANGED restOfBurn
    \/ \E caller \in Principals, ok \in BOOLEAN :
          /\ BurnFeeReply(caller, ok)
          /\ burnSeen' = [burnSeen EXCEPT ![caller].fee = IF ok THEN "ok" ELSE "failed"]
          /\ UNCHANGED restOfBurn
    \/ \E caller \in Principals, r \in TransferAnswers :
          BurnTransferReply(caller, r) /\ UNCHANGED <<restOfBurn, burnSeen>>
    \/ \E caller \in Principals, ok \in BOOLEAN :
          RedemptionReply(caller, ok) /\ UNCHANGED <<restOfBurn, burnSeen>>
    \/ \E caller \in Principals, ok \in BOOLEAN :
          DistributeReply(caller, ok) /\ UNCHANGED <<restOfBurn, burnSeen>>
    \/ Respond

SpecBurn == Init /\ [][NextBurn]_vars

\* the whole canister: mints, burns, the pause switch and the rebalance cycles
RebalanceActions == {"None", "Buy", "Sell"}
TokenBalanceAnswers == {"failed", "short", "enough"}
RebalanceCallers == {Admin, "u1"}
restOfSys == <<mintVars, burnVars, coordVars, mathVars, burnSeen, snapSeen, ringVars,
              bracket, cycle>>
NextSys ==
    \/ NextOps
    \/ TimerFires /\ UNCHANGED restOfSys
    \/ \E caller \in RebalanceCallers : perform_rebalance(caller) /\ UNCHANGED restOfSys
    \/ \E action \in RebalanceActions : IndexStateReply(action) /\ UNCHANGED restOfSys
    \/ \E ok \in BOOLEAN : PriceReply(ok) /\ UNCHANGED restOfSys
    \/ \E answer \in TokenBalanceAnswers :
          TokenBalanceReply(answer) /\ UNCHANGED restOfSys
    \/ \E ok \in BOOLEAN : SwapReply(ok) /\ UNCHANGED restOfSys

SpecSys == Init /\ [][NextSys]_vars

\* the rebalance cycles with the ring of their recent records
MAX_REBALANCE_HISTORY == 10
\* outcomes recorded, over all cycles
MaxRecorded == 11

RebalanceRecord(action, success) == [action |-> action, success |-> success]

\* (variant) a full ring gives up the record just pushed
record_rebalance_evictsNewest(h, action, success) ==
    LET pushed == Append(h, RebalanceRecord(action, success)) IN
    IF Len(pushed) > MAX_REBALANCE_HISTORY
    THEN SubSeq(pushed, 1, Len(pushed) - 1) ELSE pushed

\* record_rebalance on the ring h: push, then remove(0) when over the limit
record_rebalance(h, action, success) ==
    LET pushed == Append(h, RebalanceRecord(action, success)) IN
    IF Len(pushed) > MAX_REBALANCE_HISTORY THEN Tail(pushed) ELSE pushed

\* get_rebalancer_status, its recent_history
get_rebalancer_status == [recent_history |-> history]

\* the cycle records an outcome
Records(action, success) ==
    /\ Len(recorded) < MaxRecorded
    /\ history' = record_rebalance(history, action, success)
    /\ recorded' = Append(recorded, RebalanceRecord(action, success))

\* the actions get_rebalancing_action finds in the cycles of this window
RingActions == {"None", "Buy"}
restOfRing == <<mintVars, burnVars, coordVars, mathVars, burnSeen, snapSeen,
               bracket, cycle>>
NextRing ==
    \/ TimerFires /\ UNCHANGED <<restOfRing, ringVars>>
    \/ perform_rebalance(Admin) /\ UNCHANGED <<restOfRing, ringVars>>
    \/ \E action \in RingActions :
          /\ IndexStateReply(action)
          /\ IF action = "None" THEN Records(action, TRUE) ELSE UNCHANGED ringVars
          /\ UNCHANGED restOfRing
    \/ \E ok \in BOOLEAN :
          SwapReply(ok) /\ Records(rebalCall.action, ok) /\ UNCHANGED restOfRing
    \/ Respond

SpecRing == Init /\ [][NextRing]_vars

\* ------------------------------------------------------- trading execution
\* an f64 slippage, in units of one hundredth of a percent: 0.02 is 200
SlippageUnit == 10000
\* the largest u64 of the model (the code converts amounts with to_u64)
U64_MAX == 4095
\* Nat.0.to_u64().unwrap_or(0)
to_u64_or_zero(n) == IF n > U64_MAX THEN 0 ELSE n

\* (variant) a shortfall equal to the maximum is refused
validate_swap_result_strict(expected, actual, max_slippage) ==
    LET e == to_u64_or_zero(expected)
        a == to_u64_or_zero(actual)
    IN  IF e = 0 THEN Err("InvalidSwapAmount")
        ELSE IF e - a < 0 THEN Ok(0)
        ELSE IF (e - a) * SlippageUnit >= max_slippage * e
        THEN Err("SlippageExceeded")
        ELSE Ok(0)

\* validate_swap_result: actual_slippage = (expected - actual) / expected,
\* compared without the division
validate_swap_result(expected, actual, max_slippage) ==
    LET e == to_u64_or_zero(expected)
        a == to_u64_or_zero(actual)
    IN  IF e = 0 THEN Err("InvalidSwapAmount")
        ELSE IF e - a < 0 THEN Ok(0)
        ELSE IF (e - a) * SlippageUnit > max_slippage * e
        THEN Err("SlippageExceeded")
        ELSE Ok(0)

validate_swap_params(pay_token, pay_amount, receive_token, max_slippage) ==
    IF pay_amount = 0 THEN Err("InvalidSwapAmount")
    ELSE IF max_slippage < 0 \/ max_slippage > 10 * SlippageUnit
    THEN Err("InvalidSwapAmount")
    ELSE IF pay_token = receive_token THEN Err("InvalidSwapAmount")
    ELSE Ok(0)

\* ------------------------------------------------- the rebalance cycles
\* the cycles with execute_swap step by step and with the ring of records
\* cycles started, over timer and admin
MaxCycles == 3
MAX_SLIPPAGE_PERCENT == 2
\* what the rebalancer passes to execute_swap: MAX_SLIPPAGE_PERCENT / 100.0
CycleMaxSlippage == (MAX_SLIPPAGE_PERCENT * SlippageUnit) \div 100
\* pay_tx_id: None
NoTxId == 0
\* the basket token of the trade
TradedToken == "ALEX"
\* amounts the rebalancer computes for a trade
PayAmounts == {0, 5}
\* what swap_amounts quotes, what the swap pays out
QuoteAnswers == {QueryErr, Answer(0), Answer(100)}
DexSwapAnswers == {QueryErr, Answer(97), Answer(98), Answer(102)}

\* a cycle starts: execute_swap has made no call in it
CycleStarted ==
    [cycle EXCEPT !.running = @ + 1, !.started = @ + 1, !.skipped = FALSE,
                  !.pay_amount = 0, !.expected = 0, !.log = <<>>]
\* the cycle in flight returns, `entries` being its last calls
CycleDone(entries) ==
    [cycle EXCEPT !.running = @ - 1, !.log = @ \o entries]

\* (variant) a timer closure that does not look at the flag
TimerTick_ignoresFlag ==
    /\ ev = Quiet
    /\ cycle.started < MaxCycles
    /\ REBALANCING_IN_PROGRESS' = TRUE
    /\ rebalCall' = [IdleRebalance EXCEPT !.pc = "get_index_state_cached",
                                          !.by = "timer"]
    /\ ev' = Quiet
    /\ cycle' = CycleStarted
    /\ UNCHANGED history

\* the closure of start_rebalancing_timer: it starts a cycle, or skips the
\* tick when the flag is set
TimerTick ==
    \/ /\ cycle.started < MaxCycles
       /\ TimerFires
       /\ cycle' = CycleStarted
       /\ UNCHANGED history
    \/ /\ ev = Quiet
       /\ REBALANCING_IN_PROGRESS
       /\ cycle' = [cycle EXCEPT !.skipped = TRUE]
       /\ UNCHANGED <<rebalVars, ev, history>>

\* perform_rebalance: a cycle starts when the call neither fails the admin
\* check nor finds the flag set
ManualRebalance(caller) ==
    /\ perform_rebalance(caller)
    /\ IF ev'.act = "none"
       THEN cycle.started < MaxCycles /\ cycle' = CycleStarted
       ELSE UNCHANGED cycle
    /\ UNCHANGED history

\* execute_buy_action / execute_sell_action on Err of execute_swap: the
\* failure is recorded and returned, hourly_rebalance returns
RecordedFailure(act, action, e, entries) ==
    /\ ReturnRebalance(act, RetErr(e))
    /\ history' = record_rebalance(history, action, FALSE)
    /\ cycle' = CycleDone(entries)

\* execute_swap from its call to its first await: validation, then the call
\* of icrc2_approve for pay_amount
enter_execute_swap(act, action, pay_amount) ==
    LET pay_token == IF action = "Buy" THEN "ckUSDT" ELSE TradedToken
        receive_token == IF action = "Buy" THEN TradedToken ELSE "ckUSDT"
        v == validate_swap_params(pay_token, pay_amount, receive_token,
                                  CycleMaxSlippage)
    IN  IF ~v.ok
        THEN RecordedFailure(act, action, v.err, <<C("validate_err", pay_amount, 0)>>)
        ELSE /\ RebalanceGoes("icrc2_approve", action)
             /\ cycle' = [cycle EXCEPT !.pay_amount = pay_amount,
                                       !.log = @ \o <<C("validate_ok", pay_amount, 0),
                                                      C("approve_call", pay_amount, 0)>>]
             /\ UNCHANGED history

\* hourly_rebalance from the index state
CycleIndexState(action, pay_amount) ==
    /\ ev = Quiet
    /\ rebalCall.pc = "get_index_state_cached"
    /\ CASE action = "None" ->
                /\ ReturnRebalance("IndexStateReply", RetOk(0))
                /\ history' = record_rebalance(history, action, TRUE)
                /\ cycle' = CycleDone(<<>>)
         [] action = "Buy" -> enter_execute_swap("IndexStateReply", action, pay_amount)
         [] action = "Sell" ->
                /\ RebalanceGoes("get_token_price_in_usdt", action)
                /\ UNCHANGED <<history, cycle>>

\* execute_sell_action from the price of the token
CyclePrice(ok) ==
    /\ PriceReply(ok)
    /\ cycle' = IF ok THEN cycle ELSE CycleDone(<<>>)
    /\ UNCHANGED history

\* execute_sell_action from the balance of the token
CycleBalance(answer, pay_amount) ==
    /\ ev = Quiet
    /\ rebalCall.pc = "get_token_balance_uncached"
    /\ IF answer = "enough"
       THEN enter_execute_swap("TokenBalanceReply", rebalCall.action, pay_amount)
       ELSE /\ TokenBalanceReply(answer)
            /\ cycle' = CycleDone(<<>>)
            /\ UNCHANGED history

\* (variant) an execute_swap that goes on to the quote whatever the approval said
ApproveReply_goesOn(ok) ==
    /\ ev = Quiet
    /\ rebalCall.pc = "icrc2_approve"
    /\ RebalanceGoes("swap_amounts", rebalCall.action)
    /\ cycle' = [cycle EXCEPT !.log = @ \o <<C(IF ok THEN "approve_ok" ELSE "approve_err", 0, 0),
                                             C("quote_call", cycle.pay_amount, 0)>>]
    /\ UNCHANGED history

\* execute_swap from the reply of icrc2_approve
ApproveReply(ok) ==
    /\ ev = Quiet
    /\ rebalCall.pc = "icrc2_approve"
    /\ IF ok
       THEN /\ RebalanceGoes("swap_amounts", rebalCall.action)
            /\ cycle' = [cycle EXCEPT !.log = @ \o <<C("approve_ok", 0, 0),
                                                     C("quote_call", cycle.pay_amount, 0)>>]
            /\ UNCHANGED history
       ELSE RecordedFailure("ApproveReply", rebalCall.action, "ApprovalFailed",
                            <<C("approve_err", 0, 0)>>)

\* execute_swap from the reply of swap_amounts
QuoteReply(answer) ==
    /\ ev = Quiet
    /\ rebalCall.pc = "swap_amounts"
    /\ IF answer.ok
       THEN /\ RebalanceGoes("swap", rebalCall.action)
            /\ cycle' = [cycle EXCEPT !.expected = answer.val,
                                      !.log = @ \o <<C("quote_ok", answer.val, 0),
                                                     C("swap_call", cycle.pay_amount, NoTxId)>>]
            /\ UNCHANGED history
       ELSE RecordedFailure("QuoteReply", rebalCall.action, "KongswapError",
                            <<C("quote_err", 0, 0)>>)

\* execute_swap from the reply of swap, and the caller's record of the outcome
DexSwapReply(answer) ==
    /\ ev = Quiet
    /\ rebalCall.pc = "swap"
    /\ IF ~answer.ok
       THEN RecordedFailure("DexSwapReply", rebalCall.action, "SwapFailed",
                            <<C("swap_err", 0, 0)>>)
       ELSE LET r == validate_swap_result(cycle.expected, answer.val, CycleMaxSlippage) IN
            IF ~r.ok
            THEN RecordedFailure("DexSwapReply", rebalCall.action, r.err,
                                 <<C("swap_ok", answer.val, 0), C("slippage_err", 0, 0)>>)
            ELSE /\ ReturnRebalance("DexSwapReply", RetOk(answer.val))
                 /\ history' = record_rebalance(history, rebalCall.action, TRUE)
                 /\ cycle' = CycleDone(<<C("swap_ok", answer.val, 0),
                                         C("slippage_ok", 0, 0)>>)

restOfCycle == <<mintVars, burnVars, coordVars, mathVars, burnSeen, snapSeen,
                 recorded, bracket>>
NextCycle ==
    \/ TimerTick /\ UNCHANGED restOfCycle
    \/ \E caller \in RebalanceCallers : ManualRebalance(caller) /\ UNCHANGED restOfCycle
    \/ \E action \in RebalanceActions, pay_amount \in PayAmounts :
          CycleIndexState(action, pay_amount) /\ UNCHANGED restOfCycle
    \/ \E ok \in BOOLEAN : CyclePrice(ok) /\ UNCHANGED restOfCycle
    \/ \E answer \in TokenBalanceAnswers, pay_amount \in PayAmounts :
          CycleBalance(answer, pay_amount) /\ UNCHANGED restOfCycle
    \/ \E ok \in BOOLEAN : ApproveReply(ok) /\ UNCHANGED restOfCycle
    \/ \E answer \in QuoteAnswers : QuoteReply(answer) /\ UNCHANGED restOfCycle
    \/ \E answer \in DexSwapAnswers : DexSwapReply(answer) /\ UNCHANGED restOfCycle
    \/ Respond

SpecCycle == Init /\ [][NextCycle]_vars

\* the coordinator called as a library: any request at any time, by callers
\* that take and drop the per-user guards
CoordUsers == Users
restOfCoord == <<pending_mints, mintCall, calls, trail, issued, burnCall,
                 EMERGENCY_PAUSE, ev, rebalVars, mathVars, burnSeen, snapSeen,
                 ringVars, bracket, cycle>>
NextCoord ==
    \/ \E op \in GlobalOperations :
          try_start_global_operation(op)
          /\ UNCHANGED <<ACTIVE_MINTS, ACTIVE_BURNS, restOfCoord>>
    \/ \E op \in GlobalOperations :
          end_global_operation(op)
          /\ UNCHANGED <<ACTIVE_MINTS, ACTIVE_BURNS, restOfCoord>>
    \/ \E t \in Instants : Tick(t) /\ UNCHANGED <<ACTIVE_MINTS, ACTIVE_BURNS, restOfCoord>>
    \/ \E user \in CoordUsers : HoldMintGuard(user) /\ UNCHANGED restOfCoord
    \/ \E user \in CoordUsers : DropMintGuard(user) /\ UNCHANGED restOfCoord
    \/ \E user \in CoordUsers : HoldBurnGuard(user) /\ UNCHANGED restOfCoord
    \/ \E user \in CoordUsers : DropBurnGuard(user) /\ UNCHANGED restOfCoord

SpecCoord == Init /\ [][NextCoord]_vars

\* mints and burns that bracket their work with the coordinator: a successful
\* try_start_global_operation of their own type, the per-user guard held over
\* the work, and end_global_operation of their own type after the guard is
\* dropped; a rebalance that brackets its cycle the same way, without a guard
InBracket(pc, op) == [pc |-> pc, op |-> op]
BracketStart(user, op) ==
    /\ bracket[user].pc = "out"
    /\ try_start_global_operation(op)
    /\ bracket' = [bracket EXCEPT ![user] =
                      IF gop'.ok THEN InBracket("started", op) ELSE @]
    /\ UNCHANGED <<ACTIVE_MINTS, ACTIVE_BURNS>>

BracketGuard(user) ==
    /\ bracket[user].pc = "started"
    /\ IF bracket[user].op = "Minting"
       THEN /\ MintGuard_acquire(ACTIVE_MINTS, user).acquired
            /\ ACTIVE_MINTS' = MintGuard_acquire(ACTIVE_MINTS, user).set
            /\ UNCHANGED ACTIVE_BURNS
       ELSE /\ BurnGuard_acquire(ACTIVE_BURNS, user).acquired
            /\ ACTIVE_BURNS' = BurnGuard_acquire(ACTIVE_BURNS, user).set
            /\ UNCHANGED ACTIVE_MINTS
    /\ bracket' = [bracket EXCEPT ![user].pc = "guarded"]
    /\ UNCHANGED coordVars

BracketRelease(user) ==
    /\ bracket[user].pc = "guarded"
    /\ IF bracket[user].op = "Minting"
       THEN /\ ACTIVE_MINTS' = MintGuard_drop(ACTIVE_MINTS, user)
            /\ UNCHANGED ACTIVE_BURNS
       ELSE /\ ACTIVE_BURNS' = BurnGuard_drop(ACTIVE_BURNS, user)
            /\ UNCHANGED ACTIVE_MINTS
    /\ bracket' = [bracket EXCEPT ![user].pc = "released"]
    /\ UNCHANGED coordVars

BracketEnd(user) ==
    /\ bracket[user].pc = "released"
    /\ end_global_operation(bracket[user].op)
    /\ bracket' = [bracket EXCEPT ![user] = OutOfBracket]
    /\ UNCHANGED <<ACTIVE_MINTS, ACTIVE_BURNS>>

\* a rebalance request outside a cycle; a cycle that started ends
RebalanceRequest ==
    /\ CURRENT_GLOBAL_OPERATION # "Rebalancing"
    /\ try_start_global_operation("Rebalancing")
    /\ UNCHANGED <<ACTIVE_MINTS, ACTIVE_BURNS, bracket>>

RebalanceEnd ==
    /\ CURRENT_GLOBAL_OPERATION = "Rebalancing"
    /\ end_global_operation("Rebalancing")
    /\ UNCHANGED <<ACTIVE_MINTS, ACTIVE_BURNS, bracket>>

restOfBracket == <<pending_mints, mintCall, calls, trail, issued, burnCall,
                   EMERGENCY_PAUSE, ev, rebalVars, mathVars, burnSeen, snapSeen,
                   ringVars, cycle>>
NextBracket ==
    \/ \E user \in Users, op \in {"Minting", "Burning"} :
          BracketStart(user, op) /\ UNCHANGED restOfBracket
    \/ \E user \in Users : BracketGuard(user) /\ UNCHANGED restOfBracket
    \/ \E user \in Users : BracketRelease(user) /\ UNCHANGED restOfBracket
    \/ \E user \in Users : BracketEnd(user) /\ UNCHANGED restOfBracket
    \/ RebalanceRequest /\ UNCHANGED restOfBracket
    \/ RebalanceEnd /\ UNCHANGED restOfBracket
    \/ \E t \in Instants :
          Tick(t) /\ UNCHANGED <<ACTIVE_MINTS, ACTIVE_BURNS, bracket, restOfBracket>>

SpecBracket == Init /\ [][NextBracket]_vars

\* the pure functions, each applied once to arguments chosen at the start
Args(fn, a, b, c, balances) ==
    [fn |-> fn, a |-> a, b |-> b, c |-> c, balances |-> balances]
Returned(r, maximum, list) ==
    [applied |-> TRUE, ok |-> r.ok, val |-> r.val, err |-> r.err,
     maximum |-> maximum, list |-> list, failed |-> <<>>]

\* amounts and supplies around the 10% limit and around the width
BurnLimitAmounts == {0, 1, 99, 100, 101, U128_MAX \div 100, U128_MAX \div 100 + 1,
                     U128_MAX, U128_MAX + 1}
BurnLimitSupplies == {0, 1, 9, 10, 999, 1000, 1009, 1010, U128_MAX \div 10,
                      U128_MAX \div 10 + 1, U128_MAX, U128_MAX + 1}
BurnLimitInputs ==
    {Args("validate_burn_limit", a, b, 0, <<>>) :
        a \in BurnLimitAmounts, b \in BurnLimitSupplies}

\* the redemptions handed to distribute_tokens: non-zero, in basket order
Redemption(symbol, qty) == [symbol |-> symbol, qty |-> qty]
RedemptionLists ==
    {<<>>,
     <<Redemption("A", 500)>>,
     <<Redemption("C", 1000)>>,
     <<Redemption("A", 500), Redemption("C", 1000)>>,
     <<Redemption("A", 500), Redemption("B", 7), Redemption("C", 1000)>>}
DistributeInputs ==
    {Args("distribute_tokens", amount, 0, 0, redemptions) :
        amount \in BurnAmounts, redemptions \in RedemptionLists}

\* the loop of calculate_redemptions over the balances, in their order
RECURSIVE RedeemEach(_, _, _)
RedeemEach(burn_amount, total_supply, token_balances) ==
    IF token_balances = <<>> THEN <<>>
    ELSE LET token == Head(token_balances)
             rest == RedeemEach(burn_amount, total_supply, Tail(token_balances))
             redemption_amount ==
                 multiply_and_divide(burn_amount, token.qty, total_supply)
         IN  IF token.qty = 0 THEN rest
             ELSE IF redemption_amount.val > 0
             THEN <<Redemption(token.symbol, redemption_amount.val)>> \o rest
             ELSE rest

\* pure_math::calculate_redemptions; the value of a success is the list
calculate_redemptions(burn_amount, total_supply, token_balances) ==
    IF burn_amount = 0 THEN [Err("InvalidAmount") EXCEPT !.val = <<>>]
    ELSE IF total_supply = 0 THEN [Err("NoRedemptionsPossible") EXCEPT !.val = <<>>]
    ELSE IF burn_amount > total_supply THEN [Err("InvalidAmount") EXCEPT !.val = <<>>]
    ELSE LET redemptions == RedeemEach(burn_amount, total_supply, token_balances)
         IN  IF redemptions = <<>>
             THEN [Err("NoRedemptionsPossible") EXCEPT !.val = <<>>]
             ELSE Ok(redemptions)

\* burns, supplies and balances of up to three tokens, zero ones among them
RedeemBurns == {0, 1, 3, 50000, 100000, 100001}
RedeemSupplies == {0, 3, 100000}
TokenBalances == {0, 1, 1000, 2000}
BalanceLists ==
    {<<>>}
    \cup {<<Redemption("A", a)>> : a \in TokenBalances}
    \cup {<<Redemption("A", a), Redemption("B", b), Redemption("C", c)>> :
             a \in TokenBalances, b \in TokenBalances, c \in TokenBalances}
RedemptionInputs ==
    {Args("calculate_redemptions", burn, supply, 0, balances) :
        burn \in RedeemBurns, supply \in RedeemSupplies, balances \in BalanceLists}

\* deposits and TVLs in e6, supplies in e8
MintDeposits == {0, 1, 2, 3, 10, 50}
MintSupplies == {0, 1, 2, 7, 1000, 10000}
MintTvls == {0, 1, 2, 3, 100, 5000}
MintAmountInputs ==
    {Args("calculate_mint_amount", d, supply, tvl, <<>>) :
        d \in MintDeposits, supply \in MintSupplies, tvl \in MintTvls}

\* the same burns, supplies and balances, with every balance k times as large
ScaleFactors == {1, 2, 3, 7}
ScaledRedemptionInputs ==
    {Args("calculate_redemptions_scaled", burn, supply, k, balances) :
        burn \in RedeemBurns, supply \in RedeemSupplies, k \in ScaleFactors,
        balances \in BalanceLists}

\* ------------------------------------------------ choosing the trade of a cycle
\* infrastructure::MIN_TRADE_SIZE_USD, in dollars
MIN_TRADE_SIZE_USD == 10
\* atoms of ckUSDT in a dollar: 1_000_000 in the code, scaled to the width
CkusdtUnit == 100

\* AllocationDeviation, the fields get_rebalancing_action reads (dollars)
Deviation(token, usd_difference, trade_size_usd) ==
    [token |-> token, usd_difference |-> usd_difference,
     trade_size_usd |-> trade_size_usd]
\* RebalanceAction::{Buy, Sell, None}
TradeAction(kind, token, amount) == [kind |-> kind, token |-> token, amount |-> amount]
NoTrade == TradeAction("None", "none", 0)

\* Iterator::max_by over the under-weight tokens: the last of the largest
most_underweight(deviations) ==
    LET under == {i \in 1 .. Len(deviations) : deviations[i].usd_difference > 0}
    IN  IF under = {} THEN 0
        ELSE CHOOSE i \in under : \A j \in under :
                \/ deviations[j].usd_difference < deviations[i].usd_difference
                \/ deviations[j].usd_difference = deviations[i].usd_difference /\ j <= i

\* Iterator::min_by over the over-weight tokens: the first of the smallest
most_overweight(deviations) ==
    LET over == {i \in 1 .. Len(deviations) : deviations[i].usd_difference < 0}
    IN  IF over = {} THEN 0
        ELSE CHOOSE i \in over : \A j \in over :
                \/ deviations[j].usd_difference > deviations[i].usd_difference
                \/ deviations[j].usd_difference = deviations[i].usd_difference /\ j >= i

\* (variant) a choice that buys without looking at the reserves
get_rebalancing_action_anyReserves(deviations, ckusdt_balance) ==
    LET deficit == most_underweight(deviations)
        excess == most_overweight(deviations)
    IN  IF deficit # 0 /\ deviations[deficit].usd_difference > MIN_TRADE_SIZE_USD
        THEN TradeAction("Buy", deviations[deficit].token,
                         deviations[deficit].trade_size_usd)
        ELSE IF excess # 0 /\ -deviations[excess].usd_difference > MIN_TRADE_SIZE_USD
        THEN TradeAction("Sell", deviations[excess].token,
                         deviations[excess].trade_size_usd)
        ELSE NoTrade

\* rebalancing::get_rebalancing_action; it always returns Ok
get_rebalancing_action(deviations, ckusdt_balance) ==
    LET ckusdt_atoms == to_u64_or_zero(ckusdt_balance)
        deficit == most_underweight(deviations)
        excess == most_overweight(deviations)
    IN  IF /\ ckusdt_atoms >= MIN_TRADE_SIZE_USD * CkusdtUnit
           /\ deficit # 0
           /\ deviations[deficit].usd_difference > MIN_TRADE_SIZE_USD
        THEN TradeAction("Buy", deviations[deficit].token,
                         deviations[deficit].trade_size_usd)
        ELSE IF excess # 0 /\ -deviations[excess].usd_difference > MIN_TRADE_SIZE_USD
        THEN TradeAction("Sell", deviations[excess].token,
                         deviations[excess].trade_size_usd)
        ELSE NoTrade

\* deviations of up to three tokens on both sides of the minimum, each with a
\* trade size of its own; reserves on both sides of the minimum and of the width
UsdDifferences == {-20, -11, -10, 0, 10, 11, 20}
DeviationLists ==
    {<<>>}
    \cup {<<Deviation("A", a, 1)>> : a \in UsdDifferences}
    \cup {<<Deviation("A", a, 1), Deviation("B", b, 2), Deviation("C", c, 3)>> :
             a \in UsdDifferences, b \in UsdDifferences, c \in UsdDifferences}
CkusdtBalances == {0, MIN_TRADE_SIZE_USD * CkusdtUnit - 1, MIN_TRADE_SIZE_USD * CkusdtUnit,
                   U64_MAX, U64_MAX + 1}
RebalancingActionInputs ==
    {Args("get_rebalancing_action", ckusdt_balance, 0, 0, deviations) :
        ckusdt_balance \in CkusdtBalances, deviations \in DeviationLists}

\* ------------------------------------------------------ the locked liquidity
\* the tokens of the basket, in the order of the result
TrackedTokens == <<"ALEX", "ZERO", "KONG", "BOB">>

\* UserBalancesReply::LP, the fields calculate_kong_locker_tvl reads (dollars)
LP(symbol_0, symbol_1, usd_amount_0, usd_amount_1) ==
    [symbol_0 |-> symbol_0, symbol_1 |-> symbol_1,
     usd_amount_0 |-> usd_amount_0, usd_amount_1 |-> usd_amount_1,
     usd_balance |-> usd_amount_0 + usd_amount_1]
\* what one lock canister's user_balances query came to: the call failed,
\* Kongswap answered UserBalancesResult::Err, or it answered the positions
CallFailed == [kind |-> "call_failed", balances |-> <<>>]
KongErr == [kind |-> "kong_err", balances |-> <<>>]
Balances(lps) == [kind |-> "ok", balances |-> lps]
TokenTvl(token, usd) == [token |-> token, usd |-> usd]

\* (variant) the whole value of every position the token is a side of
SidesOf_combined(tracked_symbol, lp) ==
    IF lp.symbol_0 = tracked_symbol \/ lp.symbol_1 = tracked_symbol
    THEN lp.usd_balance ELSE 0

\* what one position adds to the total of a token: its side 0, its side 1
SidesOf(tracked_symbol, lp) ==
    (IF lp.symbol_0 = tracked_symbol THEN lp.usd_amount_0 ELSE 0)
        + (IF lp.symbol_1 = tracked_symbol THEN lp.usd_amount_1 ELSE 0)

\* the positions one lock canister holds
RECURSIVE SumPositions(_, _)
SumPositions(tracked_symbol, balances) ==
    IF balances = <<>> THEN 0
    ELSE SidesOf(tracked_symbol, Head(balances))
            + SumPositions(tracked_symbol, Tail(balances))

\* the loop over balance_results: the accumulator of one token
RECURSIVE tvl_map(_, _)
tvl_map(tracked_symbol, balance_results) ==
    IF balance_results = <<>> THEN 0
    ELSE (IF Head(balance_results).kind = "ok"
          THEN SumPositions(tracked_symbol, Head(balance_results).balances)
          ELSE 0)
            + tvl_map(tracked_symbol, Tail(balance_results))

\* the count of the replies that carry positions
RECURSIVE successful_queries(_)
successful_queries(balance_results) ==
    IF balance_results = <<>> THEN 0
    ELSE (IF Head(balance_results).kind = "ok" THEN 1 ELSE 0)
            + successful_queries(Tail(balance_results))

\* (variant) a threshold that wants more than half of the queries to succeed
TooFewSucceeded_strict(successful, total_canisters) == successful * 2 <= total_canisters

\* success_rate < 0.5
TooFewSucceeded(successful, total_canisters) == successful * 2 < total_canisters

\* tvl::calculate_kong_locker_tvl, from the reply of get_all_lock_canisters
\* (catalog_ok) and the replies of user_balances, one for each lock canister
calculate_kong_locker_tvl(catalog_ok, balance_results) ==
    LET total_canisters == Len(balance_results)
        successful == successful_queries(balance_results)
    IN  IF ~catalog_ok THEN [Err("KongLockerQueryFailed") EXCEPT !.val = <<>>]
        ELSE IF total_canisters = 0
        THEN Ok([k \in 1 .. Len(TrackedTokens) |-> TokenTvl(TrackedTokens[k], 0)])
        ELSE IF successful = 0
        THEN [Err("AllQueriesFailed") EXCEPT !.val = <<>>]
        ELSE IF TooFewSucceeded(successful, total_canisters)
        THEN [Err("TvlUnreliable") EXCEPT !.val = <<>>]
        ELSE Ok([k \in 1 .. Len(TrackedTokens) |->
                    TokenTvl(TrackedTokens[k],
                             tvl_map(TrackedTokens[k], balance_results))])

\* positions with one tracked side, with two, with none, and with a tracked
\* token on both sides
AlexPool == LP("ALEX", "ckUSDT", 3, 4)
ZeroPool == LP("ICP", "ZERO", 5, 2)
AlexZeroPool == LP("ALEX", "ZERO", 1, 7)
UntrackedPool == LP("ICP", "ckUSDT", 8, 9)
KongKongPool == LP("KONG", "KONG", 1, 2)
PeerAnswers == {CallFailed, KongErr, Balances(<<>>), Balances(<<AlexPool, ZeroPool>>),
                Balances(<<AlexZeroPool, UntrackedPool, KongKongPool>>)}
\* catalogs of up to MaxPeers lock canisters with every answer, and catalogs
\* of ManyPeers of which the first `s` answer and the others fail in turn
MaxPeers == 3
ManyPeers == 10
ManyPeerResults(s) ==
    [k \in 1 .. ManyPeers |->
        IF k <= s THEN (IF k % 2 = 1 THEN Balances(<<AlexPool, ZeroPool>>)
                        ELSE Balances(<<AlexZeroPool, UntrackedPool, KongKongPool>>))
        ELSE IF k % 2 = 1 THEN CallFailed ELSE KongErr]
PeerResultLists ==
    UNION {[1 .. n -> PeerAnswers] : n \in 0 .. MaxPeers}
        \cup {ManyPeerResults(s) : s \in 0 .. ManyPeers}
LockerTvlInputs ==
    {Args("calculate_kong_locker_tvl", 1, 0, 0, balance_results) :
        balance_results \in PeerResultLists}
        \cup {Args("calculate_kong_locker_tvl", 0, 0, 0, <<>>)}

\* quotes and amounts received around the 2% limit and around the 64-bit width;
\* the largest slippages allowed in units of 1/SlippageUnit, a negative one too
SwapExpected == {0, 1, 100, U64_MAX, U64_MAX + 1}
SwapActual == {0, 1, 97, 98, 99, 100, 102, U64_MAX, U64_MAX + 1}
SwapMaxSlippages == {-100, 0, 100, 200, SlippageUnit}
SwapResultInputs ==
    {Args("validate_swap_result", expected, actual, max_slippage, <<>>) :
        expected \in SwapExpected, actual \in SwapActual,
        max_slippage \in SwapMaxSlippages}

MathInputs ==
    BurnLimitInputs \cup DistributeInputs \cup RedemptionInputs \cup MintAmountInputs
        \cup ScaledRedemptionInputs \cup SwapResultInputs \cup RebalancingActionInputs
        \cup LockerTvlInputs

InitMath ==
    /\ InitSystem
    /\ mathIn \in MathInputs
    /\ mathOut = NotApplied

restOfMath == <<mintVars, burnVars, ev, coordVars, rebalVars, burnSeen, snapSeen,
               ringVars, bracket, cycle>>

ApplyValidateBurnLimit ==
    /\ mathIn.fn = "validate_burn_limit"
    /\ ~mathOut.applied
    /\ LET r == validate_burn_limit(mathIn.a, mathIn.b) IN
       mathOut' = Returned(r, IF r.ok THEN 0 ELSE r.val, <<>>)
    /\ UNCHANGED <<mathIn, restOfMath>>

\* distribute_tokens files the outcome of one transfer
FileTransfer(result, redemption, ok) ==
    IF ok
    THEN [result EXCEPT !.list = Append(@, redemption)]
    ELSE [result EXCEPT !.failed = Append(@,
              [symbol |-> redemption.symbol, qty |-> redemption.qty,
               reason |-> "TransferFailed"])]

\* (variant) a loop that the first failed transfer ends
LoopGoesOn_untilFailure(k, n, ok) == k < n /\ ok

\* is there a redemption left after the k-th of n
LoopGoesOn(k, n, ok) == k < n

\* distribute_tokens(caller, redemptions, amount) from the reply of one
\* transfer, up to the next transfer or the return of the BurnResult:
\* successful_transfers is `list`, failed_transfers `failed`, icpi_burned `val`
DistributeTransfer(ok) ==
    /\ mathIn.fn = "distribute_tokens"
    /\ ~mathOut.applied
    /\ LET n == Len(mathIn.balances)
           k == Len(mathOut.list) + Len(mathOut.failed) + 1
           filed == IF n = 0 THEN mathOut
                    ELSE FileTransfer(mathOut, mathIn.balances[k], ok)
       IN  mathOut' = IF LoopGoesOn(k, n, ok) THEN filed
                      ELSE [filed EXCEPT !.applied = TRUE, !.ok = TRUE,
                                         !.val = mathIn.a]
    /\ UNCHANGED <<mathIn, restOfMath>>

ApplyCalculateRedemptions ==
    /\ mathIn.fn = "calculate_redemptions"
    /\ ~mathOut.applied
    /\ LET r == calculate_redemptions(mathIn.a, mathIn.b, mathIn.balances) IN
       mathOut' = Returned([r EXCEPT !.val = 0], 0, r.val)
    /\ UNCHANGED <<mathIn, restOfMath>>

\* the balances of a basket k times as large
ScaledBalances(k, token_balances) ==
    [i \in 1 .. Len(token_balances) |->
        Redemption(token_balances[i].symbol, k * token_balances[i].qty)]

\* calculate_redemptions applied to the scaled basket
ApplyCalculateRedemptionsScaled ==
    /\ mathIn.fn = "calculate_redemptions_scaled"
    /\ ~mathOut.applied
    /\ LET r == calculate_redemptions(mathIn.a, mathIn.b,
                                      ScaledBalances(mathIn.c, mathIn.balances)) IN
       mathOut' = Returned([r EXCEPT !.val = 0], 0, r.val)
    /\ UNCHANGED <<mathIn, restOfMath>>

ApplyCalculateMintAmount ==
    /\ mathIn.fn = "calculate_mint_amount"
    /\ ~mathOut.applied
    /\ mathOut' = Returned(calculate_mint_amount(mathIn.a, mathIn.b, mathIn.c), 0, <<>>)
    /\ UNCHANGED <<mathIn, restOfMath>>

ApplyValidateSwapResult ==
    /\ mathIn.fn = "validate_swap_result"
    /\ ~mathOut.applied
    /\ mathOut' = Returned(validate_swap_result(mathIn.a, mathIn.b, mathIn.c), 0, <<>>)
    /\ UNCHANGED <<mathIn, restOfMath>>

ApplyGetRebalancingAction ==
    /\ mathIn.fn = "get_rebalancing_action"
    /\ ~mathOut.applied
    /\ mathOut' = Returned(Ok(0), 0, <<get_rebalancing_action(mathIn.balances, mathIn.a)>>)
    /\ UNCHANGED <<mathIn, restOfMath>>

ApplyCalculateKongLockerTvl ==
    /\ mathIn.fn = "calculate_kong_locker_tvl"
    /\ ~mathOut.applied
    /\ LET r == calculate_kong_locker_tvl(mathIn.a = 1, mathIn.balances) IN
       mathOut' = Returned([r EXCEPT !.val = 0], 0, r.val)
    /\ UNCHANGED <<mathIn, restOfMath>>

NextMath ==
    \/ ApplyCalculateKongLockerTvl
    \/ ApplyGetRebalancingAction
    \/ ApplyValidateSwapResult
    \/ ApplyValidateBurnLimit
    \/ ApplyCalculateMintAmount
    \/ ApplyCalculateRedemptions
    \/ ApplyCalculateRedemptionsScaled
    \/ \E ok \in BOOLEAN : DistributeTransfer(ok)

SpecMath == InitMath /\ [][NextMath]_vars

\* ------------------------------------------------------- reading histories
Has(L, op) == \E k \in 1 .. Len(L) : L[k].op = op
Ops(L) == [k \in 1 .. Len(L) |-> L[k].op]
InFlight(id) == \E p \in Principals : mintCall[p].pc # "idle" /\ mintCall[p].mint_id = id
StatusTag(id) == pending_mints[id].status.tag
MintReturns == {"complete_mint", "FeeReply", "SnapshotReply", "DepositReply",
                "IssueReply", "RefundReply"}
BurnReturns == {"burn_icpi", "AllowanceReply", "BurnSupplyReply", "BalanceReply",
                "BurnFeeReply", "BurnTransferReply", "RedemptionReply",
                "DistributeReply"}
\* the step taken is the entry segment of complete_mint by p: it returned at
\* once, or it suspended at the fee collection
EntersCompleteMint(p) ==
    \/ ev'.act = "complete_mint" /\ ev'.caller = p
    \/ mintCall'[p].pc = "collect_mint_fee" /\ mintCall'[p] # mintCall[p]
\* the same for burn_icpi, which suspends first at the allowance query
EntersBurn(p) ==
    \/ ev'.act = "burn_icpi" /\ ev'.caller = p
    \/ burnCall'[p].pc = "icrc2_allowance" /\ burnCall'[p] # burnCall[p]

\* ------------------------------------------------------------------ C1
\* C1: MintGuard::acquire, and likewise BurnGuard::acquire, fails with
\* OperationInProgress and changes nothing when the caller is already in the
\* guard's active set (so a second complete_mint issued while the first is
\* suspended touches no PendingMint); otherwise it succeeds, the caller is in
\* the set while the call is suspended, and nobody else's guard makes it fail.
C1_GuardExclusive ==
    [][\A p \in Principals :
          /\ EntersCompleteMint(p) =>
                IF p \in ACTIVE_MINTS
                THEN /\ ev'.ret = RetErr("OperationInProgress")
                     /\ UNCHANGED <<mintVars, burnVars>>
                ELSE /\ ev'.ret.err # "OperationInProgress"
                     /\ ACTIVE_MINTS' = IF mintCall'[p].pc = "idle" THEN ACTIVE_MINTS
                                        ELSE ACTIVE_MINTS \cup {p}
          /\ (EntersBurn(p) /\ check_not_paused.ok) =>
                IF p \in ACTIVE_BURNS
                THEN /\ ev'.ret = RetErr("OperationInProgress")
                     /\ UNCHANGED <<mintVars, burnVars>>
                ELSE /\ ev'.ret.err # "OperationInProgress"
                     /\ ACTIVE_BURNS' = IF burnCall'[p].pc = "idle" THEN ACTIVE_BURNS
                                        ELSE ACTIVE_BURNS \cup {p}
    ]_vars

\* a second complete_mint was refused while the caller's first was suspended at
\* the deposit, and both users held a burn guard at the time
C1_Witness ==
    /\ ev.act = "complete_mint"
    /\ ev.ret.err = "OperationInProgress"
    /\ mintCall[ev.caller].pc = "collect_deposit"
    /\ ACTIVE_BURNS = Users

\* ------------------------------------------------------------------ C2
\* C2: a principal is in ACTIVE_MINTS (ACTIVE_BURNS) exactly while a
\* complete_mint (burn_icpi) of its own is suspended at an external call; when
\* a call that had acquired the guard returns, by whatever exit, its caller is
\* out of the set.
C2_GuardRoundTrip ==
    /\ ACTIVE_MINTS = {p \in Principals : mintCall[p].pc # "idle"}
    /\ ACTIVE_BURNS = {p \in Principals : burnCall[p].pc # "idle"}
    /\ (ev.ret.done /\ ev.act \in MintReturns /\ ev.ret.err # "OperationInProgress")
          => ev.caller \notin ACTIVE_MINTS
    /\ (ev.ret.done /\ ev.act \in BurnReturns
           /\ ev.ret.err \notin {"OperationInProgress", "Paused"})
          => ev.caller \notin ACTIVE_BURNS

\* a burn has just returned its result while the other user's burn and the
\* caller's own mint are still suspended
C2_Witness ==
    /\ ev.act = "DistributeReply"
    /\ ev.ret.ok
    /\ ACTIVE_BURNS = Users \ {ev.caller}
    /\ ACTIVE_MINTS = {ev.caller}

\* ------------------------------------------------------------------ C3
Canonical == <<"fee_call", "fee_ok", "snapshot_call", "snapshot_ok",
               "deposit_call", "deposit_ok", "issue_call", "issue_ok">>
InCanonical(op) == \E k \in 1 .. Len(Canonical) : Canonical[k] = op

\* C3: within one complete_mint run the external steps come in the order fee,
\* snapshot, deposit transfer_from, issuance; the deposit is not requested
\* before the snapshot is in hand, it is the recorded deposit, and the amount
\* issued is calculate_mint_amount of that deposit and that snapshot.
C3_SnapshotBeforeDeposit ==
    \A id \in MintIds :
       LET L == calls[id] IN
       /\ \A k \in 1 .. Len(L) :
             InCanonical(L[k].op) => k <= Len(Canonical) /\ Canonical[k] = L[k].op
       /\ \A k \in 1 .. Len(L) :
             L[k].op = "deposit_call" => L[k].a = pending_mints[id].amount
       /\ \A k \in 1 .. Len(L) :
             L[k].op = "issue_call" =>
                /\ L[k].a = calculate_mint_amount(L[5].a, L[4].a, L[4].b).val
                /\ pending_mints[id].snapshot =
                      [set |-> TRUE, supply |-> L[4].a, tvl |-> L[4].b]

\* a mint was issued while another mint is suspended with its deposit taken
C3_Witness ==
    \E id \in MintIds, other \in MintIds :
       /\ id # other
       /\ Has(calls[id], "issue_ok")
       /\ Has(calls[other], "deposit_ok")
       /\ InFlight(other)

\* ------------------------------------------------------------------ C4
\* C4: once the deposit transfer_from of a run has succeeded and the call has
\* returned without completing the mint, the refund handler has run: the status
\* passed through Refunding and is FailedRefunded if the refund transfer
\* succeeded, FailedNoRefund if it failed; while the call is still suspended
\* the status is Minting or Refunding.
C4_PostDepositFailureRefunds ==
    \A id \in MintIds :
       LET L == calls[id] IN
       Has(L, "deposit_ok") =>
          IF InFlight(id) THEN StatusTag(id) \in {"Minting", "Refunding"}
          ELSE \/ StatusTag(id) = "Complete" /\ ~Has(L, "refund_call")
               \/ /\ StatusTag(id) = "FailedRefunded"
                  /\ L[Len(L)].op = "refund_ok"
                  /\ trail[id][Len(trail[id]) - 1] = "Refunding"
               \/ /\ StatusTag(id) = "FailedNoRefund"
                  /\ L[Len(L)].op = "refund_err"
                  /\ trail[id][Len(trail[id]) - 1] = "Refunding"

\* a mint whose deposit was taken, whose issuance failed and whose refund failed
C4_Witness ==
    \E id \in MintIds :
       /\ Has(calls[id], "deposit_ok")
       /\ Has(calls[id], "issue_err")
       /\ StatusTag(id) = "FailedNoRefund"
       /\ ev.ret.done /\ ~ev.ret.ok /\ ev.id = id

\* ------------------------------------------------------------------ C5
\* C5: a refund transfer is attempted, and the status set to Refunding,
\* FailedRefunded or FailedNoRefund, only in a run in which the deposit was
\* pulled from the caller.
C5_RefundOnlyAfterDeposit ==
    \A id \in MintIds :
       (\/ Has(calls[id], "refund_call")
        \/ StatusTag(id) \in {"Refunding", "FailedRefunded", "FailedNoRefund"})
          => Has(calls[id], "deposit_ok")

\* ------------------------------------------------------------------ C6
\* C6: when the fee collection fails the run made no other call and the mint is
\* Failed; when the deposit collection fails the run made the fee, snapshot and
\* deposit calls and nothing after them (no calculation, issuance or refund, the
\* fee stays collected) and the mint is Failed; either way the call has returned
\* an error.
C6_CollectionFailureIsFinal ==
    /\ \A id \in MintIds :
          LET L == calls[id] IN
          /\ Has(L, "fee_err") =>
                /\ Ops(L) = <<"fee_call", "fee_err">>
                /\ StatusTag(id) = "Failed"
                /\ trail[id] = <<"CollectingFee", "Failed">>
                /\ ~InFlight(id)
          /\ Has(L, "deposit_err") =>
                /\ Ops(L) = <<"fee_call", "fee_ok", "snapshot_call", "snapshot_ok",
                              "deposit_call", "deposit_err">>
                /\ StatusTag(id) = "Failed"
                /\ trail[id] = <<"CollectingFee", "Snapshotting",
                                 "CollectingDeposit", "Failed">>
                /\ ~InFlight(id)
    /\ ev.act = "FeeReply" =>
          ev.ret = RetErr("FeeCollectionFailed") /\ Has(calls[ev.id], "fee_err")
    /\ (ev.act = "DepositReply" /\ ev.ret.done) =>
          ev.ret = RetErr("DepositCollectionFailed") /\ Has(calls[ev.id], "deposit_err")

\* a deposit collection has just failed, after the fee was collected, while the
\* other user's mint is suspended
C6_Witness ==
    /\ ev.act = "DepositReply"
    /\ ~ev.ret.ok
    /\ Has(calls[ev.id], "fee_ok")
    /\ Has(calls[ev.id], "deposit_err")
    /\ ACTIVE_MINTS # {}

\* ------------------------------------------------------------------ C7
\* C7: once a mint is Complete, FailedRefunded or FailedNoRefund no step
\* changes its status or makes an external call for it.
C7_TerminalStatusesAreSinks ==
    [][\A id \in MintIds :
          StatusTag(id) \in {"Complete", "FailedRefunded", "FailedNoRefund"} =>
             /\ pending_mints'[id].status = pending_mints[id].status
             /\ calls'[id] = calls[id]
    ]_vars

\* ------------------------------------------------------------------ C8
\* C8: once a mint is Complete(x) nothing changes it and no call is made for
\* it; its owner's complete_mint, past the guard, returns Ok(x); and over all
\* calls its tokens are issued at most once.
C8_IdempotentOnceComplete ==
    [][\A id \in MintIds :
          /\ issued'[id] <= 1
          /\ StatusTag(id) = "Complete" =>
                /\ pending_mints'[id] = pending_mints[id]
                /\ calls'[id] = calls[id]
                /\ issued'[id] = issued[id]
                /\ \A p \in Principals :
                      (/\ EntersCompleteMint(p)
                       /\ p = pending_mints[id].user
                       /\ p \notin ACTIVE_MINTS
                       /\ ev'.id = id)
                         => /\ ev'.ret = RetOk(pending_mints[id].status.val)
                            /\ UNCHANGED mintVars
    ]_vars

\* the owner's repeated call on a Complete mint has returned the minted amount
C8_Witness ==
    /\ ev.act = "complete_mint"
    /\ ev.ret.ok
    /\ ev.id \in MintIds
    /\ StatusTag(ev.id) = "Complete"
    /\ ev.ret.val = pending_mints[ev.id].status.val
    /\ ev.ret.val > 0
    /\ issued[ev.id] = 1

\* ------------------------------------------------------------------ C9
\* C9: complete_mint, past the guard, fails with InvalidMintId when no
\* PendingMint has the id and with Unauthorized when the mint is another
\* principal's; it then has made no external call, changed no PendingMint and
\* left the caller out of ACTIVE_MINTS.  A run only ever starts for the
\* caller's own mint.
C9_UnknownOrForeignMintRejected ==
    [][\A p \in Principals :
          /\ (ev'.act = "complete_mint" /\ ev'.caller = p /\ p \notin ACTIVE_MINTS) =>
                LET pending_mint == get_pending_mint(ev'.id) IN
                /\ ~pending_mint.present =>
                      /\ ev'.ret = RetErr("InvalidMintId")
                      /\ UNCHANGED mintVars
                /\ (pending_mint.present /\ pending_mint.user # p) =>
                      /\ ev'.ret = RetErr("Unauthorized")
                      /\ UNCHANGED mintVars
          /\ (mintCall'[p].pc = "collect_mint_fee" /\ mintCall'[p] # mintCall[p]) =>
                /\ pending_mints[mintCall'[p].mint_id].present
                /\ pending_mints[mintCall'[p].mint_id].user = p
    ]_vars

\* a call on another user's mint was refused while that mint was being
\* processed for its owner
C9_Witness ==
    /\ ev.act = "complete_mint"
    /\ ev.ret.err = "Unauthorized"
    /\ ev.id \in MintIds
    /\ InFlight(ev.id)
    /\ StatusTag(ev.id) = "CollectingDeposit"
    /\ ev.caller \notin ACTIVE_MINTS

\* ------------------------------------------------------------------ C10
FullTrail == <<"CollectingFee", "Snapshotting", "CollectingDeposit",
               "Calculating", "Minting", "Complete">>

\* C10: the statuses a mint was given, in order, end with its present status
\* (none were given while it is Pending); a Complete mint was given, in its
\* run, exactly CollectingFee, Snapshotting, CollectingDeposit, Calculating,
\* Minting, Complete, so Complete was set from Minting.
C10_CompleteOnlyThroughEveryStep ==
    \A id \in StoredMints :
       /\ IF trail[id] = <<>> THEN StatusTag(id) = "Pending"
          ELSE trail[id][Len(trail[id])] = StatusTag(id)
       /\ StatusTag(id) = "Complete" => trail[id] = FullTrail

\* a mint is Complete, by way of every step, while another mint is Failed
C10_Witness ==
    \E id \in MintIds :
       /\ StatusTag(id) = "Complete"
       /\ trail[id] = FullTrail
       /\ \E other \in MintIds : other # id /\ StatusTag(other) = "Failed"

\* C11: in every reachable state the global operation is Idle exactly when
\* no mint guard and no burn guard is held and no rebalance cycle is in
\* flight.  (The entry points never call the coordinator: the state stays
\* Idle while guards are held and cycles run.)
C11_IdleIffNothingInFlight ==
    (get_current_operation = "Idle") <=>
        (ACTIVE_MINTS = {} /\ ACTIVE_BURNS = {} /\ ~REBALANCING_IN_PROGRESS)

\* C12: rebalancing excludes mints and burns: in no reachable state is a
\* rebalance cycle in flight while a mint guard or a burn guard is held, so
\* no cycle starts beside a running mint or burn and no mint or burn starts
\* beside a running cycle.
C12_RebalanceExcludesMintBurn ==
    ~(/\ rebalCall.pc # "idle"
      /\ REBALANCING_IN_PROGRESS
      /\ (ACTIVE_MINTS # {} \/ ACTIVE_BURNS # {}))

\* ------------------------------------------------------------------- C13
\* the latest coordinator call was try_start_global_operation(op) in state cur
TriedStart(cur, op) ==
    /\ gop.call = "try_start_global_operation"
    /\ gop.cur = cur
    /\ gop.op = op
\* the call left the global operation and the end time as they were
CoordUntouched ==
    /\ CURRENT_GLOBAL_OPERATION = gop.cur
    /\ LAST_OPERATION_END_TIME = gop.last
\* the call came less than 60 s after the last operation ended
CalledWithinGrace ==
    /\ gop.last > 0
    /\ gop.at > gop.last
    /\ gop.at - gop.last < 60 * TicksPerSecond

\* C13 (as stated): with Minting or Burning current a request for Rebalancing
\* fails with CriticalOperationInProgress, with Rebalancing current a request
\* for Minting or Burning fails with RebalancingInProgress, and in each case
\* the current operation and last_operation_end_time are unchanged.
C13_ConflictErrors ==
    /\ \A cur \in {"Minting", "Burning"} :
          TriedStart(cur, "Rebalancing") =>
              ~gop.ok /\ gop.err = "CriticalOperationInProgress" /\ CoordUntouched
    /\ \A op \in {"Minting", "Burning"} :
          TriedStart("Rebalancing", op) =>
              ~gop.ok /\ gop.err = "RebalancingInProgress" /\ CoordUntouched

\* C13 (amended): the same requests always fail and leave the state
\* unchanged; the error is GracePeriodActive when the request comes less
\* than 60 s after the last operation ended, and the stated one otherwise.
C13_ConflictErrorsOutsideGrace ==
    /\ \A cur \in {"Minting", "Burning"} :
          TriedStart(cur, "Rebalancing") =>
              /\ ~gop.ok
              /\ gop.err = IF CalledWithinGrace THEN "GracePeriodActive"
                           ELSE "CriticalOperationInProgress"
              /\ CoordUntouched
    /\ \A op \in {"Minting", "Burning"} :
          TriedStart("Rebalancing", op) =>
              /\ ~gop.ok
              /\ gop.err = IF CalledWithinGrace THEN "GracePeriodActive"
                           ELSE "RebalancingInProgress"
              /\ CoordUntouched

\* a rebalance request refused beside a mint, a full grace period after an
\* earlier operation ended
C13_Witness ==
    /\ TriedStart("Minting", "Rebalancing")
    /\ gop.last > 0
    /\ gop.err = "CriticalOperationInProgress"

\* ------------------------------------------------------------------- C14
\* the step taken is a call of try_start_global_operation(op)
StartsNow(op) ==
    /\ gop' # gop
    /\ gop'.call = "try_start_global_operation"
    /\ gop'.op = op
\* the latest coordinator call ended the last mint: the state went to Idle
LastMintEnded ==
    /\ gop.call = "end_global_operation"
    /\ gop.op = "Minting"
    /\ gop.cur = "Minting"
    /\ CURRENT_GLOBAL_OPERATION = "Idle"

\* C14: while a mint holds the global state Minting a rebalance request
\* fails with CriticalOperationInProgress; once the last mint has ended, a
\* rebalance request less than 60 s later fails with GracePeriodActive and
\* wait_seconds <= 60, and one made 60 s or more later succeeds.
C14_GraceAfterMint ==
    [][ /\ (CURRENT_GLOBAL_OPERATION = "Minting" /\ LAST_OPERATION_END_TIME = 0
            /\ StartsNow("Rebalancing"))
           => (~gop'.ok /\ gop'.err = "CriticalOperationInProgress")
        /\ (LastMintEnded /\ now > gop.at /\ StartsNow("Rebalancing"))
           => IF now - gop.at < 60 * TicksPerSecond
              THEN /\ ~gop'.ok
                   /\ gop'.err = "GracePeriodActive"
                   /\ gop'.wait_seconds <= 60
              ELSE gop'.ok
      ]_vars

\* ------------------------------------------------------------------- C15
\* C15: while the pause flag is set every call of complete_mint, burn_icpi
\* and perform_rebalance, and every rebalance cycle the timer starts, fails
\* before it makes an external call or changes any state.  (The claim says
\* the same of initiate_mint, whose validation is in mint_validator, outside
\* the sources at hand; the formula states the claim for the entry points
\* whose code is there.)
C15_PauseGatesEntryPoints ==
    [][ EMERGENCY_PAUSE =>
          /\ \A p \in Principals :
                EntersCompleteMint(p)
                => (ev'.act = "complete_mint" /\ ~ev'.ret.ok /\ UNCHANGED mintVars)
          /\ \A p \in Principals :
                EntersBurn(p)
                => (ev'.act = "burn_icpi" /\ ~ev'.ret.ok /\ UNCHANGED burnVars)
          /\ (ev' # ev /\ ev'.act = "perform_rebalance") => ~ev'.ret.ok
          /\ rebalCall.pc = "idle" => UNCHANGED rebalVars
      ]_vars

\* ------------------------------------------------------------------- C16
AppliedTo(fn) == mathOut.applied /\ mathIn.fn = fn

\* C16 (as stated): validate_burn_limit(amount, supply) returns Ok exactly
\* when amount * 10 <= supply, for every amount and supply; otherwise it
\* fails with AmountExceedsMaximum and maximum = floor(supply * 10 / 100).
C16_BurnLimit ==
    AppliedTo("validate_burn_limit") =>
        IF mathIn.a * 10 <= mathIn.b
        THEN mathOut.ok
        ELSE /\ ~mathOut.ok
             /\ mathOut.err = "AmountExceedsMaximum"
             /\ mathOut.maximum = (mathIn.b * 10) \div 100

\* C16 (amended): the same for every amount and supply whose scaled values
\* amount * 100 and supply * 10 fit the u128 the check computes in; for any
\* other amount or supply the function fails with another error.
C16_BurnLimitWithinWidth ==
    AppliedTo("validate_burn_limit") =>
        IF mathIn.a * 100 <= U128_MAX /\ mathIn.b * 10 <= U128_MAX
        THEN IF mathIn.a * 10 <= mathIn.b
             THEN mathOut.ok
             ELSE /\ ~mathOut.ok
                  /\ mathOut.err = "AmountExceedsMaximum"
                  /\ mathOut.maximum = (mathIn.b * 10) \div 100
        ELSE ~mathOut.ok /\ mathOut.err = "Other"

\* a burn one atom above 10% of the supply is refused, with the maximum
C16_Witness ==
    /\ AppliedTo("validate_burn_limit")
    /\ mathIn.a = 101
    /\ mathIn.b = 1000
    /\ mathOut.err = "AmountExceedsMaximum"
    /\ mathOut.maximum = 100

\* ------------------------------------------------------------------- C17
\* the redemptions whose transfer was filed as a success, or as a failure
FiledIn(list, redemption) ==
    Cardinality({j \in 1 .. Len(list) :
                    list[j].symbol = redemption.symbol /\ list[j].qty = redemption.qty})

\* C17: in the returned BurnResult every (symbol, qty) of the redemptions is
\* in exactly one of successful_transfers and failed_transfers, whichever
\* transfers failed: a failure neither ends the loop nor removes an earlier
\* success; and icpi_burned is the amount requested.
C17_EveryRedemptionAccounted ==
    AppliedTo("distribute_tokens") =>
        /\ \A k \in 1 .. Len(mathIn.balances) :
              FiledIn(mathOut.list, mathIn.balances[k])
                + FiledIn(mathOut.failed, mathIn.balances[k]) = 1
        /\ Len(mathOut.list) + Len(mathOut.failed) = Len(mathIn.balances)
        /\ mathOut.ok
        /\ mathOut.val = mathIn.a

\* three redemptions, the second transfer failed, the others went through
C17_Witness ==
    /\ AppliedTo("distribute_tokens")
    /\ Len(mathIn.balances) = 3
    /\ Len(mathOut.failed) = 1
    /\ mathOut.failed[1].symbol = "B"
    /\ Len(mathOut.list) = 2

\* ------------------------------------------------------------------- C18
\* the fee transfer_from of p's burn has been issued; the pull of the index
\* tokens has been issued
FeeIssued(p) ==
    burnCall[p].pc \in {"collect_mint_fee", "icrc2_transfer_from",
                        "calculate_redemptions", "distribute_tokens"}
PullIssued(p) ==
    burnCall[p].pc \in {"icrc2_transfer_from", "calculate_redemptions",
                        "distribute_tokens"}
\* every check between the entry and the fee transfer passed for p's burn
ChecksPassed(p) ==
    /\ p # Anonymous
    /\ burnCall[p].amount >= MIN_BURN_AMOUNT
    /\ ~(burnSeen[p].allowance.ok /\ burnSeen[p].allowance.val < MINT_FEE_AMOUNT)
    /\ burnSeen[p].supply.ok
    /\ burnSeen[p].supply.val > 0
    /\ burnCall[p].amount * 10 <= burnSeen[p].supply.val
    /\ burnSeen[p].balance.ok
    /\ burnSeen[p].balance.val >= burnCall[p].amount

\* C18: burn_icpi issues neither transfer_from unless every earlier check
\* passed: a call made while the system is paused or while the caller's
\* guard is held starts no burn; a burn whose fee transfer is issued is by a
\* named caller, of at least MIN_BURN, was not told a fee allowance below the
\* fee, was told a supply above zero of which the amount is at most 10%, and
\* a balance of at least the amount; and the index tokens are pulled only
\* after the fee transfer succeeded.
C18_NoTransferBeforeChecks ==
    /\ [](\A p \in Principals :
             /\ FeeIssued(p) => ChecksPassed(p)
             /\ PullIssued(p) => burnSeen[p].fee = "ok")
    /\ [][\A p \in Principals :
             /\ (EntersBurn(p) /\ (EMERGENCY_PAUSE \/ p \in ACTIVE_BURNS))
                   => burnCall'[p] = burnCall[p]
             /\ (FeeIssued(p)' /\ ~FeeIssued(p))
                   => burnCall[p].pc = "icrc1_balance_of"
             /\ (PullIssued(p)' /\ ~PullIssued(p))
                   => burnCall[p].pc = "collect_mint_fee"
        ]_vars

\* the index tokens of a burn are being pulled, its fee paid, while the
\* allowance query had failed
C18_Witness ==
    \E p \in Principals :
        /\ burnCall[p].pc = "icrc2_transfer_from"
        /\ burnSeen[p].fee = "ok"
        /\ ~burnSeen[p].allowance.ok
        /\ burnSeen[p].balance.val = burnCall[p].amount

\* ------------------------------------------------------------------- C19
\* the place of a symbol in the balances given (symbols are distinct there)
PlaceOf(symbol) ==
    CHOOSE k \in 1 .. Len(mathIn.balances) : mathIn.balances[k].symbol = symbol
\* the share of the k-th balance that the burn redeems
ShareOf(k) == (mathIn.a * mathIn.balances[k].qty) \div mathIn.b

\* C19: for 0 < burn <= supply, calculate_redemptions returns, for each
\* asset whose share floor(burn * balance / supply) is above zero, exactly
\* that share, which is at most the balance; assets with a zero balance or a
\* zero share are left out; and the assets come in the order given.
C19_NeverOverRedeems ==
    (AppliedTo("calculate_redemptions") /\ 0 < mathIn.a /\ mathIn.a <= mathIn.b) =>
        LET kept == {k \in 1 .. Len(mathIn.balances) : ShareOf(k) > 0} IN
        /\ mathOut.ok <=> kept # {}
        /\ Len(mathOut.list) = Cardinality(kept)
        /\ \A j \in 1 .. Len(mathOut.list) :
              LET k == PlaceOf(mathOut.list[j].symbol) IN
              /\ k \in kept
              /\ mathOut.list[j].qty = ShareOf(k)
              /\ mathOut.list[j].qty > 0
              /\ mathOut.list[j].qty <= mathIn.balances[k].qty
        /\ \A i, j \in 1 .. Len(mathOut.list) :
              i < j => PlaceOf(mathOut.list[i].symbol) < PlaceOf(mathOut.list[j].symbol)

\* half the supply burnt over A = 1000, B = 0, C = 2000: A = 500, C = 1000
C19_Witness ==
    /\ AppliedTo("calculate_redemptions")
    /\ mathIn.a = 50000
    /\ mathIn.b = 100000
    /\ mathIn.balances = <<Redemption("A", 1000), Redemption("B", 0), Redemption("C", 2000)>>
    /\ mathOut.list = <<Redemption("A", 500), Redemption("C", 1000)>>

\* ------------------------------------------------------------------- C20
\* C20: calculate_mint_amount(d, s, t) fails with InvalidAmount when d = 0;
\* returns d * 100 when s = 0 or t = 0; otherwise returns
\* floor((d * 100) * s / (t * 100)), failing with
\* ProportionalCalculationError when that is 0; so that r * t <= d * s for
\* every proportional mint r.
C20_MintAmount ==
    AppliedTo("calculate_mint_amount") =>
        LET d == mathIn.a
            supply == mathIn.b
            tvl == mathIn.c
        IN
        IF d = 0 THEN ~mathOut.ok /\ mathOut.err = "InvalidAmount"
        ELSE IF supply = 0 \/ tvl = 0 THEN mathOut.ok /\ mathOut.val = d * 100
        ELSE LET r == ((d * 100) * supply) \div (tvl * 100) IN
             IF r = 0
             THEN ~mathOut.ok /\ mathOut.err = "ProportionalCalculationError"
             ELSE /\ mathOut.ok
                  /\ mathOut.val = r
                  /\ mathOut.val * tvl <= d * supply

\* a deposit of 10% of the TVL mints 10% of the supply
C20_Witness ==
    /\ AppliedTo("calculate_mint_amount")
    /\ mathIn.a = 10
    /\ mathIn.b = 10000
    /\ mathIn.c = 100
    /\ mathOut.ok
    /\ mathOut.val = 1000

\* ------------------------------------------------------------------- C21
\* the amount a list of redemptions holds for a symbol, 0 when it is left out
AmountOf(list, symbol) ==
    IF \E j \in 1 .. Len(list) : list[j].symbol = symbol
    THEN list[CHOOSE j \in 1 .. Len(list) : list[j].symbol = symbol].qty
    ELSE 0
\* what calculate_redemptions returns for the basket before it is scaled
Unscaled == calculate_redemptions(mathIn.a, mathIn.b, mathIn.balances)
SymbolsGiven == {mathIn.balances[i].symbol : i \in 1 .. Len(mathIn.balances)}

\* C21 (as stated): for every burn, supply, balances B and k >= 1,
\* calculate_redemptions(burn, supply, k * B) returns for each asset exactly
\* k times the amount calculate_redemptions(burn, supply, B) returns for it.
C21_Homogeneity ==
    AppliedTo("calculate_redemptions_scaled") =>
        /\ mathOut.ok <=> Unscaled.ok
        /\ \A symbol \in SymbolsGiven :
              AmountOf(mathOut.list, symbol) = mathIn.c * AmountOf(Unscaled.val, symbol)

\* C21 (amended): the amount returned for each asset of k * B is at least k
\* times the amount returned for it with B and at most k - 1 more than that
\* (an asset left out counts as 0), and exactly k times it when burn * B[i]
\* is a multiple of the supply; an input refused with B is refused with
\* k * B for the same reason unless the reason is that every share was zero.
C21_HomogeneityUpToRounding ==
    AppliedTo("calculate_redemptions_scaled") =>
        LET k == mathIn.c IN
        /\ Unscaled.ok => mathOut.ok
        /\ (~Unscaled.ok /\ mathOut.ok) =>
              /\ Unscaled.err = "NoRedemptionsPossible"
              /\ 0 < mathIn.a /\ mathIn.a <= mathIn.b
        /\ (~Unscaled.ok /\ ~mathOut.ok) => mathOut.err = Unscaled.err
        /\ \A i \in 1 .. Len(mathIn.balances) :
              LET symbol == mathIn.balances[i].symbol
                  one == AmountOf(Unscaled.val, symbol)
                  many == AmountOf(mathOut.list, symbol)
              IN  /\ k * one <= many
                  /\ many <= k * one + (k - 1)
                  /\ (mathIn.b > 0 /\ (mathIn.a * mathIn.balances[i].qty) % mathIn.b = 0)
                        => many = k * one

\* burning 1 of a supply of 3: a balance of 1000 redeems 333, a balance of
\* 3000 redeems 1000, one more than 3 * 333
C21_Witness ==
    /\ AppliedTo("calculate_redemptions_scaled")
    /\ mathIn.a = 1
    /\ mathIn.b = 3
    /\ mathIn.c = 3
    /\ mathIn.balances = <<Redemption("A", 1000)>>
    /\ Unscaled.val = <<Redemption("A", 333)>>
    /\ mathOut.list = <<Redemption("A", 1000)>>

\* ------------------------------------------------------------------- C22
\* C22: a stored mint that is Pending, CollectingFee or Snapshotting carries
\* no snapshot, and one that is CollectingDeposit, Calculating, Minting or
\* Complete carries one, whatever attempts went before.
C22_SnapshotIffPassedSnapshotting ==
    \A id \in StoredMints :
        /\ StatusTag(id) \in {"Pending", "CollectingFee", "Snapshotting"} =>
              ~pending_mints[id].snapshot.set
        /\ StatusTag(id) \in {"CollectingDeposit", "Calculating", "Minting", "Complete"} =>
              pending_mints[id].snapshot.set

\* ------------------------------------------------------------------- C23
TerminalTags == {"Complete", "Failed", "FailedRefunded", "FailedNoRefund"}
OpenMintsOf(p) ==
    {id \in StoredMints :
        pending_mints[id].user = p /\ StatusTag(id) \notin TerminalTags}

\* C23: at any time every principal owns at most one stored mint whose
\* status is not terminal.
C23_OneOpenMintPerPrincipal ==
    \A p \in Principals : Cardinality(OpenMintsOf(p)) <= 1

\* ------------------------------------------------------------------- C24
\* the last k of a sequence
LastOf(seq, k) == SubSeq(seq, Len(seq) - k + 1, Len(seq))
Min(a, b) == IF a <= b THEN a ELSE b

\* C24: whatever cycles have run, recent_history holds at most
\* MAX_REBALANCE_HISTORY records, and they are the most recent
\* min(n, MAX_REBALANCE_HISTORY) of the n outcomes recorded, oldest first.
C24_RingHoldsMostRecent ==
    LET ring == get_rebalancer_status.recent_history IN
    /\ Len(ring) <= MAX_REBALANCE_HISTORY
    /\ Len(ring) = Min(Len(recorded), MAX_REBALANCE_HISTORY)
    /\ ring = LastOf(recorded, Len(ring))

\* eleven outcomes recorded, of more than one kind: the first has left the ring
C24_Witness ==
    /\ Len(recorded) = MAX_REBALANCE_HISTORY + 1
    /\ Len(history) = MAX_REBALANCE_HISTORY
    /\ recorded[1] # recorded[2]
    /\ history[1] = recorded[2]
    /\ history[MAX_REBALANCE_HISTORY] = recorded[MAX_REBALANCE_HISTORY + 1]
    /\ history[MAX_REBALANCE_HISTORY] # history[MAX_REBALANCE_HISTORY - 1]

\* ------------------------------------------------------------------- C25
\* an attempt in which a query failed, and the error it leaves
Fails(a) == ~(a.supply.ok /\ a.tvl.ok)
ErrorOf(a) == IF ~a.supply.ok THEN a.supply.err ELSE a.tvl.err
\* both answered, exactly one of them with zero
OneZero(a) == ~Fails(a) /\ ((a.supply.val = 0) # (a.tvl.val = 0))
\* the error complete_mint holds or has just returned for the mint, if any
SnapshotErrorIs(id, e) ==
    /\ \A p \in Principals :
          (mintCall[p].mint_id = id /\ mintCall[p].pc = "refund_deposit") =>
              mintCall[p].err = e
    /\ (ev.act = "RefundReply" /\ ev.id = id) => ev.ret.err = e

\* C25: in a run that got to the snapshot, get_supply_and_tvl_atomic makes at
\* most MAX_RETRIES + 1 = 3 attempts and only a failed attempt is followed by
\* another; an attempt whose two queries succeed ends it, with
\* DataInconsistency when exactly one value is zero and with that attempt's
\* values otherwise; three failed attempts end it with the error of the
\* third; and after an error the deposit is never asked for.
C25_SnapshotAttempts ==
    \A id \in MintIds :
        Has(calls[id], "snapshot_call") =>
            LET L == snapSeen[id]
                n == Len(L)
                ended == Has(calls[id], "snapshot_ok") \/ Has(calls[id], "snapshot_err")
            IN
            /\ n <= MAX_RETRIES + 1
            /\ \A i \in 1 .. n - 1 : Fails(L[i])
            /\ ~ended => /\ n <= MAX_RETRIES
                         /\ \A i \in 1 .. n : Fails(L[i])
                         /\ \E p \in Principals :
                               /\ mintCall[p].mint_id = id
                               /\ mintCall[p].pc = "get_supply_and_tvl_atomic"
                               /\ mintCall[p].attempt = n
            /\ ended => n >= 1
            /\ Has(calls[id], "snapshot_ok") =>
                  /\ ~Fails(L[n]) /\ ~OneZero(L[n])
                  /\ \E k \in 1 .. Len(calls[id]) :
                        calls[id][k] = C("snapshot_ok", L[n].supply.val, L[n].tvl.val)
                  /\ ~Has(calls[id], "snapshot_err")
            /\ Has(calls[id], "snapshot_err") =>
                  /\ IF Fails(L[n])
                     THEN n = MAX_RETRIES + 1 /\ SnapshotErrorIs(id, ErrorOf(L[n]))
                     ELSE OneZero(L[n]) /\ SnapshotErrorIs(id, "DataInconsistency")
                  /\ ~Has(calls[id], "deposit_call")

\* two attempts fail for different reasons, the third returns its values and
\* the mint goes on to the deposit
C25_Witness ==
    \E id \in MintIds :
        /\ Len(snapSeen[id]) = MAX_RETRIES + 1
        /\ ErrorOf(snapSeen[id][1]) # ErrorOf(snapSeen[id][2])
        /\ ~Fails(snapSeen[id][3])
        /\ Has(calls[id], "snapshot_ok")
        /\ Has(calls[id], "deposit_call")

\* ------------------------------------------------------------------- C26
\* C26 (as stated): with Minting or Burning current, a request for Minting
\* or for Burning always succeeds and leaves the current operation as it was.
C26_MintsAndBurnsCoexist ==
    \A cur \in {"Minting", "Burning"}, op \in {"Minting", "Burning"} :
        TriedStart(cur, op) => gop.ok /\ CoordUntouched

\* C26 (amended): such a request leaves the state as it was; it succeeds
\* when it asks for the current operation, and when it asks for the other
\* one unless it comes less than 60 s after the last operation ended, when
\* it fails with GracePeriodActive.
C26_MintsAndBurnsCoexistOutsideGrace ==
    \A cur \in {"Minting", "Burning"}, op \in {"Minting", "Burning"} :
        TriedStart(cur, op) =>
            /\ CoordUntouched
            /\ IF cur # op /\ CalledWithinGrace
               THEN ~gop.ok /\ gop.err = "GracePeriodActive"
               ELSE gop.ok

\* a burn registered beside the mints: two principals hold a mint guard and
\* two a burn guard while the global operation stays Minting
C26_Witness ==
    /\ TriedStart("Minting", "Burning")
    /\ gop.ok
    /\ CURRENT_GLOBAL_OPERATION = "Minting"
    /\ Cardinality(ACTIVE_MINTS) >= 2
    /\ Cardinality(ACTIVE_BURNS) >= 2

\* ------------------------------------------------------------------- C27
\* the step taken changes the global operation to Idle
GoesIdle ==
    CURRENT_GLOBAL_OPERATION # "Idle" /\ CURRENT_GLOBAL_OPERATION' = "Idle"
\* the step taken is a call of end_global_operation
EndsNow ==
    gop' # gop /\ gop'.call = "end_global_operation"

\* C27 (as stated): try_start_global_operation(Idle) returns StateCorrupted
\* from every current state and never changes the current operation, and
\* the state becomes Idle only through end_global_operation.
C27_StartIdleAlwaysErrors ==
    [][ /\ StartsNow("Idle") =>
              /\ ~gop'.ok
              /\ gop'.err = "StateCorrupted"
              /\ UNCHANGED <<CURRENT_GLOBAL_OPERATION, LAST_OPERATION_END_TIME>>
        /\ GoesIdle => EndsNow
      ]_vars

\* C27 (amended): try_start_global_operation(Idle) never changes the current
\* operation; it fails whenever the current operation is not Idle, with
\* GracePeriodActive less than 60 s after the last operation ended and with
\* StateCorrupted otherwise, and returns Ok when the current operation is
\* Idle already; the state becomes Idle only through end_global_operation.
C27_StartIdleErrorsUnlessIdle ==
    [][ /\ StartsNow("Idle") =>
              /\ UNCHANGED <<CURRENT_GLOBAL_OPERATION, LAST_OPERATION_END_TIME>>
              /\ IF CURRENT_GLOBAL_OPERATION = "Idle" THEN gop'.ok
                 ELSE /\ ~gop'.ok
                      /\ gop'.err =
                            IF /\ LAST_OPERATION_END_TIME > 0
                               /\ now > LAST_OPERATION_END_TIME
                               /\ now - LAST_OPERATION_END_TIME < 60 * TicksPerSecond
                            THEN "GracePeriodActive" ELSE "StateCorrupted"
        /\ GoesIdle => EndsNow
      ]_vars

\* a request for Idle refused beside a running burn
C27_Witness ==
    /\ TriedStart("Burning", "Idle")
    /\ ~gop.ok
    /\ gop.err = "StateCorrupted"
    /\ CURRENT_GLOBAL_OPERATION = "Burning"

\* ------------------------------------------------------------------- C28
\* time since the last operation ended, when one has ended
Elapsed == now - LAST_OPERATION_END_TIME
\* the request made in this step is refused with GracePeriodActive, a wait
\* of 0 to 60 seconds, and nothing changed
RefusedForGrace ==
    /\ ~gop'.ok
    /\ gop'.err = "GracePeriodActive"
    /\ 0 <= gop'.wait_seconds /\ gop'.wait_seconds <= 60
    /\ UNCHANGED <<CURRENT_GLOBAL_OPERATION, LAST_OPERATION_END_TIME>>

\* C28 (as stated): try_start_global_operation(op) fails with
\* GracePeriodActive, 0 <= wait_seconds <= 60 and the state unchanged,
\* whenever the current operation is not Idle, differs from op and less than
\* 60 s have elapsed since last_operation_end_time; and never with
\* GracePeriodActive when the current operation is Idle or equals op.
C28_GracePeriod ==
    [][\A op \in GlobalOperations :
          StartsNow(op) =>
              /\ (/\ CURRENT_GLOBAL_OPERATION \notin {"Idle", op}
                  /\ LAST_OPERATION_END_TIME > 0
                  /\ 0 <= Elapsed /\ Elapsed < 60 * TicksPerSecond)
                 => RefusedForGrace
              /\ CURRENT_GLOBAL_OPERATION \in {"Idle", op}
                 => gop'.err # "GracePeriodActive"
    ]_vars

\* C28 (amended): the same, for a request that comes later than the instant
\* the last operation ended: at that very instant the grace check lets the
\* request through; and these are the only requests refused for the grace
\* period, the wait being the whole seconds left of the 60.
C28_GracePeriodAfterTheEnd ==
    [][\A op \in GlobalOperations :
          StartsNow(op) =>
              /\ (/\ CURRENT_GLOBAL_OPERATION \notin {"Idle", op}
                  /\ LAST_OPERATION_END_TIME > 0
                  /\ 0 < Elapsed /\ Elapsed < 60 * TicksPerSecond)
                 <=> gop'.err = "GracePeriodActive"
              /\ gop'.err = "GracePeriodActive" =>
                    /\ RefusedForGrace
                    /\ gop'.wait_seconds =
                          (60 * TicksPerSecond - Elapsed) \div TicksPerSecond
              /\ CURRENT_GLOBAL_OPERATION \in {"Idle", op}
                 => gop'.err # "GracePeriodActive"
    ]_vars

\* a burn asked for half a second after an operation ended, beside a mint
\* that started since: 59 whole seconds to wait
C28_Witness ==
    /\ TriedStart("Minting", "Burning")
    /\ gop.err = "GracePeriodActive"
    /\ gop.at - gop.last = 1
    /\ gop.wait_seconds = 59
    /\ CoordUntouched

\* ------------------------------------------------------------------- C29
\* the step taken is a call of end_global_operation(op)
EndsNowOf(op) == EndsNow /\ gop'.op = op
\* a per-principal guard is held
GuardHeld == ACTIVE_MINTS # {} \/ ACTIVE_BURNS # {}

\* C29 (as stated): end_global_operation(Rebalancing) always leaves the
\* global state Idle and sets last_operation_end_time to the current time.
C29_EndRebalancingAlwaysIdle ==
    [][EndsNowOf("Rebalancing") =>
          /\ CURRENT_GLOBAL_OPERATION' = "Idle"
          /\ LAST_OPERATION_END_TIME' = now
    ]_vars

\* C29 (amended): end_global_operation(Rebalancing) called while the current
\* operation is Rebalancing leaves the global state Idle and sets
\* last_operation_end_time to the current time, whatever guards are held, and
\* has_active_operations then reports activity only for the guards; called
\* in any other state it changes nothing.
C29_EndRebalancingWhenRebalancing ==
    [][EndsNowOf("Rebalancing") =>
          IF CURRENT_GLOBAL_OPERATION = "Rebalancing"
          THEN /\ CURRENT_GLOBAL_OPERATION' = "Idle"
               /\ LAST_OPERATION_END_TIME' = now
               /\ has_active_operations' <=> GuardHeld'
          ELSE UNCHANGED <<CURRENT_GLOBAL_OPERATION, LAST_OPERATION_END_TIME>>
    ]_vars

\* a rebalance ended while a mint guard was held, later than it started
C29_Witness ==
    /\ gop.call = "end_global_operation"
    /\ gop.op = "Rebalancing"
    /\ gop.cur = "Rebalancing"
    /\ gop.mints
    /\ gop.at > 1
    /\ CURRENT_GLOBAL_OPERATION = "Idle"
    /\ LAST_OPERATION_END_TIME = gop.at
    /\ ACTIVE_MINTS = {}
    /\ ACTIVE_BURNS = {}
    /\ ~has_active_operations

\* ------------------------------------------------------------------- C30
\* C30: end_global_operation(Minting) and end_global_operation(Burning) set
\* the global state to Idle and record last_operation_end_time only if both
\* ACTIVE_MINTS and ACTIVE_BURNS are empty at that moment; while a principal
\* is in either set they leave the global state and the end time unchanged.
\* With both sets empty the call that names the current operation does both.
C30_EndMintOrBurnWaitsForGuards ==
    [][\A op \in {"Minting", "Burning"} :
          EndsNowOf(op) =>
              /\ GuardHeld =>
                    UNCHANGED <<CURRENT_GLOBAL_OPERATION,
                                LAST_OPERATION_END_TIME>>
              /\ (\/ CURRENT_GLOBAL_OPERATION' # CURRENT_GLOBAL_OPERATION
                  \/ LAST_OPERATION_END_TIME' # LAST_OPERATION_END_TIME)
                 => /\ ACTIVE_MINTS = {} /\ ACTIVE_BURNS = {}
                    /\ CURRENT_GLOBAL_OPERATION' = "Idle"
                    /\ LAST_OPERATION_END_TIME' = now
              /\ (~GuardHeld /\ CURRENT_GLOBAL_OPERATION = op)
                 => /\ CURRENT_GLOBAL_OPERATION' = "Idle"
                    /\ LAST_OPERATION_END_TIME' = now
    ]_vars

\* a mint ended while no mint guard but a burn guard was held: the state
\* is still Minting and the end time is the old one
C30_Witness ==
    /\ gop.call = "end_global_operation"
    /\ gop.op = "Minting"
    /\ gop.cur = "Minting"
    /\ ~gop.mints
    /\ gop.burns
    /\ CURRENT_GLOBAL_OPERATION = "Minting"
    /\ LAST_OPERATION_END_TIME = gop.last

\* ------------------------------------------------------------------- C31
\* every mint and burn that started has ended
AllBracketsEnded == \A user \in Users : bracket[user].pc = "out"

\* C31 (as stated): when every mint and burn brackets its work with a
\* successful try_start_global_operation of its own type and, after releasing
\* its guard, end_global_operation of its own type, the global state is Idle
\* once the last of them has ended (unless a rebalance has started since).
C31_IdleOnceAllEnded ==
    AllBracketsEnded => CURRENT_GLOBAL_OPERATION \in {"Idle", "Rebalancing"}

\* ------------------------------------------------------------------- C32
\* the run of complete_mint on id took a snapshot whose tvl is 0
SnapshotWithoutTvl(id) ==
    \E k \in 1 .. Len(calls[id]) :
       calls[id][k].op = "snapshot_ok" /\ calls[id][k].b = 0

\* C32: if the snapshot taken by complete_mint has tvl = 0, the call fails
\* with InsufficientTVL, the mint is marked Failed, and the deposit
\* transfer_from is never issued: the run ends at the snapshot.  No other run
\* returns InsufficientTVL.
C32_ZeroTvlRejected ==
    /\ \A id \in MintIds :
          SnapshotWithoutTvl(id) =>
             /\ Ops(calls[id]) = <<"fee_call", "fee_ok", "snapshot_call", "snapshot_ok">>
             /\ ~Has(calls[id], "deposit_call")
             /\ StatusTag(id) = "Failed"
             /\ trail[id] = <<"CollectingFee", "Snapshotting", "Failed">>
             /\ ~InFlight(id)
    /\ (ev.act = "SnapshotReply" /\ SnapshotWithoutTvl(ev.id))
          => ev.ret = RetErr("InsufficientTVL")
    /\ (ev.ret.done /\ ev.ret.err = "InsufficientTVL")
          => ev.act = "SnapshotReply" /\ SnapshotWithoutTvl(ev.id)

\* a run has just returned InsufficientTVL on a snapshot of (0, 0)
C32_Witness ==
    /\ ev.act = "SnapshotReply"
    /\ ev.ret = RetErr("InsufficientTVL")
    /\ calls[ev.id][Len(calls[ev.id])] = C("snapshot_ok", 0, 0)
    /\ StatusTag(ev.id) = "Failed"
    /\ ~pending_mints[ev.id].snapshot.set

\* ------------------------------------------------------------------- C33
\* the statuses of a mint from the deposit collection to completion
FromDepositOn == {"CollectingDeposit", "Calculating", "Minting", "Complete"}

\* C33: every mint that is CollectingDeposit, Calculating, Minting or Complete
\* carries a snapshot with supply > 0 and tvl > 0, and every issuance is of
\* the proportional amount deposit * supply / tvl of such a snapshot, never of
\* the amount of the initial-mint branch (supply = 0 or tvl = 0).
C33_NoBootstrapMint ==
    \A id \in MintIds :
       LET L == calls[id]
           snap == pending_mints[id].snapshot
       IN
       /\ StatusTag(id) \in FromDepositOn =>
             snap.set /\ snap.supply > 0 /\ snap.tvl > 0
       /\ \A k \in 1 .. Len(L) :
             L[k].op \in {"deposit_call", "issue_call"} =>
                /\ L[4].op = "snapshot_ok"
                /\ L[4].a > 0
                /\ L[4].b > 0
                /\ snap = [set |-> TRUE, supply |-> L[4].a, tvl |-> L[4].b]
       /\ \A k \in 1 .. Len(L) :
             L[k].op = "issue_call" =>
                L[k].a = (pending_mints[id].amount * 100 * L[4].a) \div (L[4].b * 100)

\* a mint is Complete on a snapshot with supply and TVL, its tokens issued
C33_Witness ==
    \E id \in MintIds :
       /\ StatusTag(id) = "Complete"
       /\ issued[id] = 1
       /\ pending_mints[id].snapshot.supply > 0
       /\ pending_mints[id].snapshot.tvl > 0
       /\ pending_mints[id].status.val =
             (pending_mints[id].amount * pending_mints[id].snapshot.supply)
                \div pending_mints[id].snapshot.tvl

\* ------------------------------------------------------------------- C34
\* burn_icpi of caller is suspended past the successful transfer_from of the
\* index tokens
PastTheBurn(caller) ==
    burnCall[caller].pc \in {"calculate_redemptions", "distribute_tokens"}

\* C34 (as stated): once burn_icpi's transfer_from of the caller's index tokens
\* has succeeded, the call returns Ok(BurnResult) with icpi_burned = amount: no
\* return after it is an error.
C34_NoErrorAfterTheBurn ==
    [][\A caller \in Principals :
          (/\ PastTheBurn(caller)
           /\ burnCall'[caller].pc = "idle")
             => /\ ev'.caller = caller
                /\ ev'.ret.ok
                /\ ev'.ret.val = burnCall[caller].amount
    ]_vars

\* ------------------------------------------------------------------- C35
\* the step taken starts a rebalance cycle / ends the one in flight
CycleStarts == cycle'.started > cycle.started
CycleEnds == cycle'.running < cycle.running

\* C35: at most one rebalancing cycle, timer-driven or manual, is in flight at
\* any time, and the flag is set exactly while one is; no cycle starts while
\* the flag is set: a timer tick then changes nothing and perform_rebalance, by
\* the admin, fails with RebalancingInProgress; and the step in which a cycle
\* finishes, with success or with an error, clears the flag, so that whenever
\* no cycle is in flight the flag is clear and the next trigger starts one.
C35_OneCycleInFlight ==
    /\ [](/\ cycle.running \in {0, 1}
          /\ REBALANCING_IN_PROGRESS <=> cycle.running = 1
          /\ REBALANCING_IN_PROGRESS <=> rebalCall.pc # "idle")
    /\ [][/\ REBALANCING_IN_PROGRESS => ~CycleStarts
          /\ (REBALANCING_IN_PROGRESS /\ cycle'.skipped /\ ~cycle.skipped)
                => UNCHANGED <<rebalVars, history, ev>>
          /\ (/\ REBALANCING_IN_PROGRESS
              /\ ev = Quiet
              /\ ev'.act = "perform_rebalance"
              /\ ev'.caller = Admin)
                => /\ ev'.ret = RetErr("RebalancingInProgress")
                   /\ UNCHANGED <<rebalVars, cycle>>
          /\ CycleEnds => /\ ~REBALANCING_IN_PROGRESS'
                          /\ rebalCall' = IdleRebalance
                          /\ cycle'.running = 0
          /\ CycleStarts => /\ ~REBALANCING_IN_PROGRESS
                            /\ REBALANCING_IN_PROGRESS'
                            /\ cycle'.running = 1
      ]_vars

\* a second cycle is in flight after the first one failed; a tick was skipped
\* and the admin's trigger has just been refused
C35_Witness ==
    /\ cycle.started = 2
    /\ cycle.running = 1
    /\ cycle.skipped
    /\ Len(history) = 1
    /\ ~history[1].success
    /\ ev.act = "perform_rebalance"
    /\ ev.ret = RetErr("RebalancingInProgress")

\* ------------------------------------------------------------------- C37
\* C37 (as stated): every rebalance cycle that runs appends exactly one
\* RebalanceRecord to the history, also when the trade fails at any step: the
\* step that ends a cycle appends one record, and no other step writes the
\* history.
C37_OneRecordPerCycle ==
    [][/\ CycleEnds =>
             \E action \in RebalanceActions, success \in BOOLEAN :
                history' = Append(history, RebalanceRecord(action, success))
       /\ ~CycleEnds => history' = history
    ]_vars

\* ------------------------------------------------------------------- C38
\* the steps of an execute_swap that succeeds, and what each is when it fails
SwapSteps == <<"validate_ok", "approve_call", "approve_ok", "quote_call",
               "quote_ok", "swap_call", "swap_ok", "slippage_ok">>
SwapFailures == <<"validate_err", "none", "approve_err", "none",
                  "quote_err", "none", "swap_err", "slippage_err">>
SwapCalls(L) == {k \in 1 .. Len(L) : L[k].op = "swap_call"}

\* C38: execute_swap performs, in this order, input validation, icrc2_approve
\* of exactly pay_amount, the swap_amounts quote, the DEX swap with
\* pay_tx_id = None, and the slippage check of the result; the steps of a
\* cycle are a prefix of that order, ended by the first failure; the DEX swap
\* is not called when validation, approval or the quote failed; and a cycle
\* makes at most one swap call.
C38_SwapOrder ==
    LET L == cycle.log IN
    /\ Len(L) <= Len(SwapSteps)
    /\ \A k \in 1 .. Len(L) :
          \/ L[k].op = SwapSteps[k]
          \/ L[k].op = SwapFailures[k] /\ k = Len(L)
    /\ \A k \in 1 .. Len(L) :
          /\ L[k].op = "approve_call" =>
                L[k].a = cycle.pay_amount /\ L[1] = C("validate_ok", cycle.pay_amount, 0)
          /\ L[k].op = "swap_call" =>
                /\ L[k] = C("swap_call", cycle.pay_amount, NoTxId)
                /\ L[1].op = "validate_ok"
                /\ L[3].op = "approve_ok"
                /\ L[5] = C("quote_ok", cycle.expected, 0)
          /\ L[k].op = "slippage_ok" =>
                validate_swap_result(cycle.expected, L[k - 1].a, CycleMaxSlippage).ok
          /\ L[k].op = "slippage_err" =>
                ~validate_swap_result(cycle.expected, L[k - 1].a, CycleMaxSlippage).ok
    /\ Cardinality(SwapCalls(L)) <= 1
    /\ (\/ Has(L, "validate_err") \/ Has(L, "approve_err") \/ Has(L, "quote_err"))
          => SwapCalls(L) = {}

\* a sale went through every step: quoted 100, paid out 98, within the 2%
C38_Witness ==
    /\ Ops(cycle.log) = SwapSteps
    /\ cycle.expected = 100
    /\ cycle.log[7].a = 98
    /\ cycle.running = 0
    /\ history[Len(history)] = RebalanceRecord("Sell", TRUE)

\* ------------------------------------------------------------------- C39
\* the shortfall of the amount received, as a fraction of the quote, is over
\* max_slippage (in units of 1/SlippageUnit)
ShortfallOver(expected, actual, max_slippage) ==
    (expected - actual) * SlippageUnit > max_slippage * expected
SwapRefused(e) == ~mathOut.ok /\ mathOut.err = e

Deviations == mathIn.balances
ActionChosen == mathOut.list[1]
LargestDeficit(i) ==
    /\ i \in 1 .. Len(Deviations)
    /\ Deviations[i].usd_difference > 0
    /\ \A j \in 1 .. Len(Deviations) :
          Deviations[j].usd_difference <= Deviations[i].usd_difference
LargestExcess(i) ==
    /\ i \in 1 .. Len(Deviations)
    /\ Deviations[i].usd_difference < 0
    /\ \A j \in 1 .. Len(Deviations) :
          Deviations[j].usd_difference >= Deviations[i].usd_difference
DeficitOverMinimum ==
    \E i \in 1 .. Len(Deviations) : Deviations[i].usd_difference > MIN_TRADE_SIZE_USD
ExcessOverMinimum ==
    \E i \in 1 .. Len(Deviations) : -Deviations[i].usd_difference > MIN_TRADE_SIZE_USD
\* the selection by priority, for reserves counted as `reserves` atoms
SelectedByPriority(reserves) ==
    IF reserves >= MIN_TRADE_SIZE_USD * CkusdtUnit /\ DeficitOverMinimum
    THEN \E i \in 1 .. Len(Deviations) :
            /\ LargestDeficit(i)
            /\ ActionChosen = TradeAction("Buy", Deviations[i].token,
                                          Deviations[i].trade_size_usd)
    ELSE IF ExcessOverMinimum
    THEN \E i \in 1 .. Len(Deviations) :
            /\ LargestExcess(i)
            /\ ActionChosen = TradeAction("Sell", Deviations[i].token,
                                          Deviations[i].trade_size_usd)
    ELSE ActionChosen = NoTrade
\* no Buy on reserves below the minimum, no trade on a deviation of at most it
NoDustTrade ==
    /\ ActionChosen.kind = "Buy" => mathIn.a >= MIN_TRADE_SIZE_USD * CkusdtUnit
    /\ ActionChosen.kind # "None" =>
          \E i \in 1 .. Len(Deviations) :
             /\ Deviations[i].token = ActionChosen.token
             /\ Deviations[i].trade_size_usd = ActionChosen.amount
             /\ IF ActionChosen.kind = "Buy"
                THEN Deviations[i].usd_difference > MIN_TRADE_SIZE_USD
                ELSE -Deviations[i].usd_difference > MIN_TRADE_SIZE_USD

Peers == mathIn.balances
SuccessfulPeers == {k \in 1 .. Len(Peers) : Peers[k].kind = "ok"}
FailedPeers == (1 .. Len(Peers)) \ SuccessfulPeers
SidesHeld ==
    UNION {{<<k, i, side>> : i \in 1 .. Len(Peers[k].balances), side \in {0, 1}} :
              k \in SuccessfulPeers}
SideSymbol(x) ==
    LET lp == Peers[x[1]].balances[x[2]]
    IN  IF x[3] = 0 THEN lp.symbol_0 ELSE lp.symbol_1
SideUsd(x) ==
    LET lp == Peers[x[1]].balances[x[2]]
    IN  IF x[3] = 0 THEN lp.usd_amount_0 ELSE lp.usd_amount_1
RECURSIVE SumUsd(_)
SumUsd(sides) ==
    IF sides = {} THEN 0
    ELSE LET x == CHOOSE y \in sides : TRUE
         IN  SideUsd(x) + SumUsd(sides \ {x})
TotalsAre(f(_)) ==
    /\ mathOut.ok
    /\ Len(mathOut.list) = Len(TrackedTokens)
    /\ \A k \in 1 .. Len(TrackedTokens) :
          mathOut.list[k] = TokenTvl(TrackedTokens[k], f(TrackedTokens[k]))
ZeroTotal(token) == 0
SideTotal(token) == SumUsd({x \in SidesHeld : SideSymbol(x) = token})

\* C40: calculate_kong_locker_tvl, for a catalog of n > 0 lock canisters of
\* which s answered, fails if s = 0 or if more than half of the queries
\* failed, and otherwise returns for each basket token the sum, over the
\* canisters that answered, of the USD amount of each side of a position whose
\* symbol is that token; 10 canisters with 6 answers are accepted, 10 with 6
\* failures are refused, and an empty catalog gives all-zero totals.
C40_LockerTvl ==
    (AppliedTo("calculate_kong_locker_tvl") /\ mathIn.a = 1) =>
        LET n == Len(Peers)
            s == Cardinality(SuccessfulPeers)
        IN  /\ IF n = 0 THEN TotalsAre(ZeroTotal)
               ELSE IF s = 0 \/ Cardinality(FailedPeers) * 2 > n THEN ~mathOut.ok
               ELSE TotalsAre(SideTotal)
            /\ (n = 10 /\ s = 6) => mathOut.ok
            /\ (n = 10 /\ s = 4) => ~mathOut.ok

\* ten lock canisters, six answered: the totals are those of the six
C40_Witness ==
    /\ AppliedTo("calculate_kong_locker_tvl")
    /\ Len(Peers) = 10
    /\ Cardinality(SuccessfulPeers) = 6
    /\ mathOut.ok
    /\ mathOut.list = <<TokenTvl("ALEX", 12), TokenTvl("ZERO", 27),
                        TokenTvl("KONG", 9), TokenTvl("BOB", 0)>>

====
